---------------------------- MODULE Spec2Model ----------------------------
(***************************************************************************)
(* A model of pylint_secure_coding_standard.py: the option parser, the     *)
(* call-shape matchers, the mode-policy store and the rule dispatcher of   *)
(* SecureCodingStandardChecker.                                            *)
(*                                                                         *)
(* Python values are tagged records ([type |-> "int", val |-> 493]), text  *)
(* that the code takes apart (option strings, open() modes, message        *)
(* arguments) is a sequence of one-character strings, and identifiers the  *)
(* code only compares (module, function and keyword names) are strings.    *)
(* Syntax-tree nodes are records carrying the astroid fields the code      *)
(* reads: Call(func, args, keywords), Name(name), Attribute(expr,          *)
(* attrname), Const(value), UnaryOp(op, operand), BinOp(op, left, right).  *)
(***************************************************************************)
EXTENDS Integers, Sequences, FiniteSets

VARIABLES
    modes_allowed,  \* name -> self._os_<name>_modes_allowed
    msg_arg,        \* name -> self._os_<name>_msg_arg
    system,         \* what platform.system() returns
    op,             \* the operation the host invoked last ("idle": returned)
    arg,            \* its argument: a node, or an option string
    messages,       \* the add_message calls of that operation, in order
    raised,         \* the exception it ended with, "none" if it returned
    result,         \* the value a pure helper returned
    ncalls          \* setter calls made so far (counted and bounded in SpecOptions)

vars == <<modes_allowed, msg_arg, system, op, arg, messages, raised, result, ncalls>>

-----------------------------------------------------------------------------
(* Python values *)

PyNone == [type |-> "None"]
PyInt(n) == [type |-> "int", val |-> n]
PyBool(b) == [type |-> "bool", val |-> b]
PyStr(s) == [type |-> "str", val |-> s]
PyList(s) == [type |-> "list", val |-> s]

\* bool(v)
Truthy(v) ==
    CASE v.type = "None" -> FALSE
      [] v.type = "int" -> v.val # 0
      [] v.type = "bool" -> v.val
      [] v.type = "str" -> Len(v.val) > 0
      [] v.type = "list" -> Len(v.val) > 0
      [] v.type = "float" -> v.num # "finite" \/ v.man # <<>>

\* isinstance(v, int): bool is a subclass of int
IsInstanceInt(v) == v.type \in {"int", "bool"}

\* the integer a Python int or bool stands for
IntOf(v) == IF v.type = "bool" THEN (IF v.val THEN 1 ELSE 0) ELSE v.val

\* list(range(n))
Range(n) == [i \in 1..n |-> i - 1]

SeqToSet(s) == {s[i] : i \in 1..Len(s)}

-----------------------------------------------------------------------------
(* Python floats *)

\* A natural number of any size: its digits in base 2^15, the lowest first,
\* none for zero and the highest not zero. (TLC's integers end at 2^31, the
\* mantissa of a double has 53 bits.)
Limb == 2^15

RECURSIVE Trim(_)
Trim(a) == IF a # <<>> /\ a[Len(a)] = 0 THEN Trim(SubSeq(a, 1, Len(a) - 1)) ELSE a

RECURSIVE BigOf(_)
BigOf(n) == IF n = 0 THEN <<>> ELSE <<n % Limb>> \o BigOf(n \div Limb)

\* a + b + carry
RECURSIVE BigAdd(_, _, _)
BigAdd(a, b, carry) ==
    IF a = <<>> /\ b = <<>> THEN BigOf(carry)
    ELSE IF a = <<>> THEN BigAdd(b, a, carry)
    ELSE IF b = <<>>
    THEN <<(Head(a) + carry) % Limb>> \o BigAdd(Tail(a), b, (Head(a) + carry) \div Limb)
    ELSE <<(Head(a) + Head(b) + carry) % Limb>>
             \o BigAdd(Tail(a), Tail(b), (Head(a) + Head(b) + carry) \div Limb)

\* the digits of a - b - borrow, for a >= b + borrow
RECURSIVE BigSubDigits(_, _, _)
BigSubDigits(a, b, borrow) ==
    IF a = <<>> THEN <<>>
    ELSE IF b = <<>>
    THEN <<(Head(a) - borrow) % Limb>>
             \o BigSubDigits(Tail(a), b, IF Head(a) - borrow < 0 THEN 1 ELSE 0)
    ELSE <<(Head(a) - Head(b) - borrow) % Limb>>
             \o BigSubDigits(Tail(a), Tail(b), IF Head(a) - Head(b) - borrow < 0 THEN 1 ELSE 0)

BigSub(a, b) == Trim(BigSubDigits(a, b, 0))

BigLess(a, b) ==
    IF Len(a) # Len(b) THEN Len(a) < Len(b)
    ELSE \E i \in 1..Len(a) : a[i] < b[i] /\ \A j \in (i + 1)..Len(a) : a[j] = b[j]

\* the digits of a * k + carry, for k and carry below Limb
RECURSIVE BigTimes(_, _, _)
BigTimes(a, k, carry) ==
    IF a = <<>> THEN BigOf(carry)
    ELSE <<(Head(a) * k + carry) % Limb>>
             \o BigTimes(Tail(a), k, (Head(a) * k + carry) \div Limb)

RECURSIVE BigMul(_, _)
BigMul(a, b) ==
    IF a = <<>> \/ b = <<>> THEN <<>>
    ELSE Trim(BigAdd(BigTimes(a, Head(b), 0), <<0>> \o BigMul(a, Tail(b)), 0))

\* a * 2^k
BigShl(a, k) ==
    IF a = <<>> THEN a
    ELSE [i \in 1..(k \div 15) |-> 0] \o BigTimes(a, 2^(k % 15), 0)

\* a \div 2^k
BigShr(a, k) ==
    LET rest == SubSeq(a, (k \div 15) + 1, Len(a))
        low == 2^(k % 15)
    IN Trim([i \in 1..Len(rest) |->
                 (rest[i] \div low)
                     + (IF i < Len(rest) THEN (rest[i + 1] % low) * (Limb \div low) ELSE 0)])

RECURSIVE BitsOf(_)
BitsOf(n) == IF n = 0 THEN 0 ELSE 1 + BitsOf(n \div 2)

\* the number of bits of a
BitLen(a) == IF a = <<>> THEN 0 ELSE 15 * (Len(a) - 1) + BitsOf(a[Len(a)])

\* bit i of a, bit 0 the lowest
BitAt(a, i) ==
    IF (i \div 15) + 1 > Len(a) THEN 0 ELSE (a[(i \div 15) + 1] \div 2^(i % 15)) % 2

\* a * k for k below Limb
BigScale(a, k) == Trim(BigTimes(a, k, 0))

\* long division, one digit d of the dividend, five bits at a time from bit i
\* down: the remainder r (below b) of the digits above takes the five bits
\* and gives up the multiples of b it then holds, q collects their numbers
RECURSIVE BigDivDigit(_, _, _, _, _)
BigDivDigit(d, b, i, q, r) ==
    IF i < 0 THEN [quot |-> q, rem |-> r]
    ELSE LET next == BigAdd(BigScale(r, 32), <<>>, (d \div 2^i) % 32)
             m == CHOOSE m \in 0..31 :
                      ~BigLess(next, BigScale(b, m)) /\ BigLess(next, BigScale(b, m + 1))
         IN BigDivDigit(d, b, i - 5, 32 * q + m, BigSub(next, BigScale(b, m)))

\* the quotient and the remainder of a by b # 0: those of the digits above
\* the lowest, then the lowest digit; a zero digit under a zero remainder
\* leaves the remainder zero
RECURSIVE BigDivMod(_, _)
BigDivMod(a, b) ==
    IF a = <<>> THEN [quot |-> <<>>, rem |-> <<>>]
    ELSE LET above == BigDivMod(Tail(a), b)
             last == BigDivDigit(Head(a), b, 10, 0, above.rem)
         IN IF above.rem = <<>> /\ Head(a) = 0
            THEN [quot |-> Trim(<<0>> \o above.quot), rem |-> <<>>]
            ELSE [quot |-> Trim(<<last.quot>> \o above.quot), rem |-> last.rem]

\* A Python float is an IEEE 754 double. A finite one is man * 2^exp, negated
\* when neg, with an odd mantissa man below 2^53, exp >= -1074 and a magnitude
\* below 2^1024 (the subnormal numbers are those below 2^-1022, their mantissa
\* has fewer bits); the zeros have no mantissa and keep their sign. The
\* infinities have a sign only. No operation of the program tells the sign of
\* a NaN: the model keeps none.
PyFloat(neg, man, exp) ==
    [type |-> "float", num |-> "finite", neg |-> neg, man |-> man, exp |-> exp]
PyInf(neg) == [type |-> "float", num |-> "inf", neg |-> neg, man |-> <<>>, exp |-> 0]
PyNaN == [type |-> "float", num |-> "nan", neg |-> FALSE, man |-> <<>>, exp |-> 0]

\* the number of zero bits below the lowest one bit of n > 0
RECURSIVE LowZeros(_)
LowZeros(n) == IF n % 2 = 1 THEN 0 ELSE 1 + LowZeros(n \div 2)

\* man * 2^exp with the mantissa made odd
RECURSIVE Float(_, _, _)
Float(neg, man, exp) ==
    IF man = <<>> THEN PyFloat(neg, <<>>, 0)
    ELSE IF man[1] = 0 THEN Float(neg, Tail(man), exp + 15)
    ELSE PyFloat(neg, BigShr(man, LowZeros(man[1])), exp + LowZeros(man[1]))

\* man * 2^exp, a multiple of 2^-1074 of at most 53 bits: it overflows to an
\* infinity from 2^1024 on
Overflow(neg, man, exp) ==
    IF BitLen(man) + exp > 1024 THEN PyInf(neg) ELSE Float(neg, man, exp)

\* man * 2^exp, or a value between that and the next mantissa when inexact,
\* rounded to a multiple of 2^(exp + k): to the nearest one, a tie to the even
\* multiple
RoundAt(neg, man, exp, inexact, k) ==
    IF k <= 0 THEN Overflow(neg, man, exp)
    ELSE IF /\ BitAt(man, k - 1) = 1
            /\ \/ inexact
               \/ BigShl(BigShr(man, k - 1), k - 1) # man
               \/ BitAt(man, k) = 1
    THEN Overflow(neg, BigAdd(BigShr(man, k), <<>>, 1), exp + k)
    ELSE Overflow(neg, BigShr(man, k), exp + k)

\* the double nearest to man * 2^exp (man has 55 bits or more when inexact): a
\* mantissa of 53 bits, of fewer bits where the multiples of 2^-1074 are
\* farther apart than that (a subnormal result, or a zero)
RoundFloat(neg, man, exp, inexact) ==
    RoundAt(neg, man, exp, inexact,
            IF BitLen(man) - 53 > (0 - 1074) - exp
            THEN BitLen(man) - 53
            ELSE (0 - 1074) - exp)

IsFloat(v) == v.type = "float"
IsNaN(x) == x.num = "nan"
IsInf(x) == x.num = "inf"
IsZero(v) == IF IsFloat(v) THEN v.num = "finite" /\ v.man = <<>> ELSE IntOf(v) = 0

\* float(v) of an int or a bool, exact below 2^53
ToFloat(v) ==
    IF IsFloat(v) THEN v
    ELSE IF IntOf(v) < 0 THEN Float(TRUE, BigOf(0 - IntOf(v)), 0)
    ELSE Float(FALSE, BigOf(IntOf(v)), 0)

FloatNeg(x) == IF IsNaN(x) THEN x ELSE [x EXCEPT !.neg = ~x.neg]

\* x + y of finite doubles, neither a zero, x.exp >= y.exp: the exact sum,
\* rounded; a zero sum of opposite numbers is +0.0. When y is below the 2^-64
\* of the lowest bit of x, the sum lies between two neighbours among the
\* multiples of that and rounds as any value between them does.
AlignedAdd(x, y) ==
    IF x.exp - y.exp > 117
    THEN IF x.neg = y.neg
         THEN RoundFloat(x.neg, BigShl(x.man, 64), x.exp - 64, TRUE)
         ELSE RoundFloat(x.neg, BigSub(BigShl(x.man, 64), <<1>>), x.exp - 64, TRUE)
    ELSE IF x.neg = y.neg
    THEN RoundFloat(x.neg, BigAdd(BigShl(x.man, x.exp - y.exp), y.man, 0), y.exp, FALSE)
    ELSE IF BigShl(x.man, x.exp - y.exp) = y.man THEN PyFloat(FALSE, <<>>, 0)
    ELSE IF BigLess(BigShl(x.man, x.exp - y.exp), y.man)
    THEN RoundFloat(y.neg, BigSub(y.man, BigShl(x.man, x.exp - y.exp)), y.exp, FALSE)
    ELSE RoundFloat(x.neg, BigSub(BigShl(x.man, x.exp - y.exp), y.man), y.exp, FALSE)

\* x + y of finite doubles: two zeros give -0.0 only when both are -0.0
FiniteAdd(x, y) ==
    IF x.man = <<>> /\ y.man = <<>> THEN PyFloat(x.neg /\ y.neg, <<>>, 0)
    ELSE IF x.man = <<>> THEN y
    ELSE IF y.man = <<>> THEN x
    ELSE IF x.exp < y.exp THEN AlignedAdd(y, x)
    ELSE AlignedAdd(x, y)

\* x + y: an infinity stays, two opposite infinities give NaN
FloatAdd(x, y) ==
    IF IsNaN(x) \/ IsNaN(y) THEN PyNaN
    ELSE IF IsInf(x) THEN (IF IsInf(y) /\ x.neg # y.neg THEN PyNaN ELSE x)
    ELSE IF IsInf(y) THEN y
    ELSE FiniteAdd(x, y)

\* x * y: the exact product, rounded; an infinity times a zero is NaN
FloatMul(x, y) ==
    IF IsNaN(x) \/ IsNaN(y) THEN PyNaN
    ELSE IF IsInf(x) \/ IsInf(y)
    THEN (IF IsZero(x) \/ IsZero(y) THEN PyNaN ELSE PyInf(x.neg # y.neg))
    ELSE RoundFloat(x.neg # y.neg, BigMul(x.man, y.man), x.exp + y.exp, FALSE)

\* x / y of finite doubles, y # 0: a quotient of 55 bits or more, rounded
FiniteDiv(x, y) ==
    LET k == IF BitLen(y.man) > BitLen(x.man)
             THEN 55 + BitLen(y.man) - BitLen(x.man)
             ELSE 55
        d == BigDivMod(BigShl(x.man, k), y.man)
    IN IF x.man = <<>> THEN PyFloat(x.neg # y.neg, <<>>, 0)
       ELSE RoundFloat(x.neg # y.neg, d.quot, x.exp - y.exp - k, d.rem # <<>>)

\* x / y for y # 0: two infinities give NaN, a finite x by an infinity a zero
FloatDiv(x, y) ==
    IF IsNaN(x) \/ IsNaN(y) THEN PyNaN
    ELSE IF IsInf(x) THEN (IF IsInf(y) THEN PyNaN ELSE PyInf(x.neg # y.neg))
    ELSE IF IsInf(y) THEN PyFloat(x.neg # y.neg, <<>>, 0)
    ELSE FiniteDiv(x, y)

\* a * a modulo m
BigSquareMod(a, m) == BigDivMod(BigMul(a, a), m).rem

\* 2^d modulo m, by squaring
RECURSIVE BigPowerMod(_, _)
BigPowerMod(d, m) ==
    IF d = 0 THEN BigDivMod(<<1>>, m).rem
    ELSE IF d % 2 = 1 THEN BigDivMod(BigShl(BigPowerMod(d - 1, m), 1), m).rem
    ELSE BigSquareMod(BigPowerMod(d \div 2, m), m)

\* fmod(x, y) of finite doubles, y # 0: the remainder of the mantissas at the
\* lower of the two exponents; x itself when all of x lies below the lowest
\* bit of y
FiniteFmod(x, y) ==
    IF x.man = <<>> THEN x
    ELSE IF x.exp >= y.exp
    THEN Float(x.neg,
               BigDivMod(BigMul(x.man, BigPowerMod(x.exp - y.exp, y.man)), y.man).rem,
               y.exp)
    ELSE IF y.exp - x.exp > 53 THEN x
    ELSE Float(x.neg, BigDivMod(x.man, BigShl(y.man, y.exp - x.exp)).rem, x.exp)

\* fmod(x, y) for y # 0: exact, with the sign of x; NaN for an infinite x, x
\* for an infinite y
FloatFmod(x, y) ==
    IF IsNaN(x) \/ IsNaN(y) \/ IsInf(x) THEN PyNaN
    ELSE IF IsInf(y) THEN x
    ELSE FiniteFmod(x, y)

\* floor(x)
FloatFloor(x) ==
    IF x.num # "finite" \/ x.exp >= 0 THEN x
    ELSE IF x.neg THEN Float(TRUE, BigAdd(BigShr(x.man, 0 - x.exp), <<>>, 1), 0)
    ELSE Float(FALSE, BigShr(x.man, 0 - x.exp), 0)

\* x > 0.5, false of NaN
FloatAboveHalf(x) ==
    /\ ~x.neg
    /\ \/ IsInf(x)
       \/ /\ x.num = "finite"
          /\ x.man # <<>>
          /\ x.exp >= 0 \/ BigLess(BigShl(<<1>>, 0 - x.exp - 1), x.man)

\* x % y for floats, y # 0: fmod, moved by y to take the sign of y
FloatModFrom(y, mod) ==
    IF IsZero(mod) THEN PyFloat(y.neg, <<>>, 0)
    ELSE IF y.neg # mod.neg THEN FloatAdd(mod, y)
    ELSE mod

FloatMod(x, y) == FloatModFrom(y, FloatFmod(x, y))

\* the whole number nearest to quot, its floor being down
FloatSnap(quot, down) ==
    IF FloatAboveHalf(FloatAdd(quot, FloatNeg(down)))
    THEN FloatAdd(down, ToFloat(PyInt(1)))
    ELSE down

\* the floored quotient of x by y from their quotient quot
FloatFloorOf(x, y, quot) ==
    IF IsZero(quot) THEN PyFloat(x.neg # y.neg, <<>>, 0)
    ELSE FloatSnap(quot, FloatFloor(quot))

\* the quotient (x - mod) / y, less one when mod has not the sign of y
FloatQuotient(y, mod, div) ==
    IF ~IsZero(mod) /\ y.neg # mod.neg THEN FloatAdd(div, ToFloat(PyInt(0 - 1))) ELSE div

\* x // y for floats, y # 0: (x - fmod(x, y)) / y, less one when fmod has not
\* the sign of y, snapped to the nearest whole number
FloatFloorDivFrom(x, y, mod) ==
    FloatFloorOf(x, y, FloatQuotient(y, mod, FloatDiv(FloatAdd(x, FloatNeg(mod)), y)))

FloatFloorDiv(x, y) == FloatFloorDivFrom(x, y, FloatFmod(x, y))

-----------------------------------------------------------------------------
(* Text *)

\* the letters str.lower() changes among the characters U+0000..U+00FF, the
\* characters a string of the model can hold: A..Z and the capitals
\* U+00C0..U+00DE without the sign U+00D7; each becomes the character 0x20 above
Upper == <<"A","B","C","D","E","F","G","H","I","J","K","L","M",
           "N","O","P","Q","R","S","T","U","V","W","X","Y","Z",
           "À","Á","Â","Ã","Ä","Å","Æ","Ç","È","É","Ê","Ë","Ì","Í","Î",
           "Ï","Ð","Ñ","Ò","Ó","Ô","Õ","Ö","Ø","Ù","Ú","Û","Ü","Ý","Þ">>
LowerOf == <<"a","b","c","d","e","f","g","h","i","j","k","l","m",
             "n","o","p","q","r","s","t","u","v","w","x","y","z",
             "à","á","â","ã","ä","å","æ","ç","è","é","ê","ë","ì","í","î",
             "ï","ð","ñ","ò","ó","ô","õ","ö","ø","ù","ú","û","ü","ý","þ">>

\* str.lower() of one character
LowerChar(c) ==
    IF \E i \in 1..Len(Upper) : Upper[i] = c
    THEN LowerOf[CHOOSE i \in 1..Len(Upper) : Upper[i] = c]
    ELSE c

\* str.lower()
Lower(s) == [i \in 1..Len(s) |-> LowerChar(s[i])]

\* the characters str.strip() removes among U+0000..U+00FF: blank, \t, \n, \r,
\* \f, the vertical tab 0x0b, the separators 0x1c..0x1f, the next-line control
\* U+0085 and the no-break space U+00A0 (the blanks above U+00FF cannot stand
\* in a string of the model)
Whitespace ==
    {" ", "\t", "\n", "\r", "\f", "", "", "", "", "", "", " "}

\* the characters int() skips around a numeral: the same without the separators
\* 0x1c..0x1f
IntWhitespace == {" ", "\t", "\n", "\r", "\f", "", "", " "}

RECURSIVE LStrip(_, _)
LStrip(s, blanks) ==
    IF s # <<>> /\ Head(s) \in blanks THEN LStrip(Tail(s), blanks) ELSE s

RECURSIVE RStrip(_, _)
RStrip(s, blanks) ==
    IF s # <<>> /\ s[Len(s)] \in blanks
    THEN RStrip(SubSeq(s, 1, Len(s) - 1), blanks)
    ELSE s

\* str.strip()
Strip(s) == RStrip(LStrip(s, Whitespace), Whitespace)

\* str.split(sep): always at least one token
RECURSIVE Split(_, _)
Split(s, sep) ==
    IF \A i \in 1..Len(s) : s[i] # sep
    THEN <<s>>
    ELSE LET k == CHOOSE i \in 1..Len(s) :
                      s[i] = sep /\ \A j \in 1..(i - 1) : s[j] # sep
         IN <<SubSeq(s, 1, k - 1)>> \o Split(SubSeq(s, k + 1, Len(s)), sep)

Digits == <<"0","1","2","3","4","5","6","7","8","9">>
IsDigit(c, base) == \E i \in 1..base : Digits[i] = c
DigitVal(c) == (CHOOSE i \in 1..10 : Digits[i] = c) - 1

RECURSIVE DigitsValue(_, _)
DigitsValue(s, base) ==
    IF s = <<>> THEN 0
    ELSE DigitsValue(SubSeq(s, 1, Len(s) - 1), base) * base + DigitVal(s[Len(s)])

\* int(arg, base) for base 8 or 10: surrounding white space, an optional sign,
\* for base 8 an optional 0o prefix, then at least one digit of the base; a
\* single underscore may stand between two digits and right after the prefix.
\* [ok |-> FALSE] stands for ValueError.
ParseDigits(d, base, negative) ==
    IF /\ d # <<>>
       /\ \A i \in 1..Len(d) : IsDigit(d[i], base) \/ d[i] = "_"
       /\ d[1] # "_"
       /\ d[Len(d)] # "_"
       /\ \A i \in 1..(Len(d) - 1) : ~(d[i] = "_" /\ d[i + 1] = "_")
    THEN [ok |-> TRUE,
          val |-> IF negative
                  THEN 0 - DigitsValue(SelectSeq(d, LAMBDA c : c # "_"), base)
                  ELSE DigitsValue(SelectSeq(d, LAMBDA c : c # "_"), base)]
    ELSE [ok |-> FALSE, val |-> 0]

ParseUnsigned(u, base, negative) ==
    IF base = 8 /\ Len(u) >= 2 /\ u[1] = "0" /\ u[2] \in {"o", "O"}
    THEN IF Len(u) >= 3 /\ u[3] = "_"
         THEN ParseDigits(SubSeq(u, 4, Len(u)), base, negative)
         ELSE ParseDigits(SubSeq(u, 3, Len(u)), base, negative)
    ELSE ParseDigits(u, base, negative)

ParseSigned(t, base) ==
    IF t # <<>> /\ Head(t) \in {"+", "-"}
    THEN ParseUnsigned(Tail(t), base, Head(t) = "-")
    ELSE ParseUnsigned(t, base, FALSE)

ParseInt(text, base) ==
    ParseSigned(RStrip(LStrip(text, IntWhitespace), IntWhitespace), base)

RECURSIVE OctDigits(_)
OctDigits(n) ==
    IF n < 8 THEN <<Digits[n + 1]>> ELSE OctDigits(n \div 8) \o <<Digits[(n % 8) + 1]>>

\* oct(n)
Oct(n) ==
    IF n < 0 THEN <<"-", "0", "o">> \o OctDigits(0 - n) ELSE <<"0", "o">> \o OctDigits(n)

-----------------------------------------------------------------------------
(* _read_octal_mode_option *)

Returned(v) == [raises |-> "none", ret |-> v]
Raised(e) == [raises |-> e, ret |-> PyNone]

\* try: first, except ValueError: second
OrElse(first, second) == IF first.ok THEN first ELSE second

\* _str_to_int trying base 10 first, base 8 when that fails
StrToIntDecimalFirst(a) == OrElse(ParseInt(a, 10), ParseInt(a, 8))

\* the inner _str_to_int: base 8 first, base 10 when that fails
_str_to_int(a) == OrElse(ParseInt(a, 8), ParseInt(a, 10))

\* the list branch, on the tokens that are not blank
ReadList(kept) ==
    IF \E i \in 1..Len(kept) : ~_str_to_int(kept[i]).ok
    THEN Raised("ValueError")
    ELSE IF kept = <<>>
         THEN Raised("ValueError")
         ELSE Returned(PyList([i \in 1..Len(kept) |-> _str_to_int(kept[i]).val]))

\* the single-value branch: n is _str_to_int(value), tried first
ReadSingle(value, n, default) ==
    IF n.ok THEN Returned(PyInt(n.val))
    ELSE IF value \in {<<"y">>, <<"y","e","s">>, <<"t","r","u","e">>}
         THEN Returned(default)
         ELSE IF value \in {<<"n">>, <<"n","o">>, <<"f","a","l","s","e">>}
              THEN Returned(PyNone)
              ELSE Raised("ValueError")

\* value is lowered, modes its stripped tokens
ReadModes(value, modes, default) ==
    IF Len(modes) > 1
    THEN ReadList(SelectSeq(modes, LAMBDA m : m # <<>>))
    ELSE IF modes[1] # <<>>
         THEN ReadSingle(value, _str_to_int(value), default)
         ELSE Raised("ValueError")

\* [mode.strip() for mode in tokens]
StripAll(tokens) == [i \in 1..Len(tokens) |-> Strip(tokens[i])]

\* the parser without value.lower()
ReadOptionCaseSensitive(name, value, default) ==
    ReadModes(value, StripAll(Split(value, ",")), default)

_read_octal_mode_option(name, value, default) ==
    ReadModes(Lower(value), StripAll(Split(Lower(value), ",")), default)

-----------------------------------------------------------------------------
(* Syntax-tree nodes (astroid) *)

Name(n) == [kind |-> "Name", name |-> n]
Attribute(e, a) == [kind |-> "Attribute", expr |-> e, attrname |-> a]
Const(v) == [kind |-> "Const", value |-> v]
UnaryOp(o, e) == [kind |-> "UnaryOp", op |-> o, operand |-> e]
BinOp(o, l, r) == [kind |-> "BinOp", op |-> o, left |-> l, right |-> r]
Keyword(a, v) == [arg |-> a, value |-> v]
Call(f, a, k) == [kind |-> "Call", func |-> f, args |-> a, keywords |-> k]
ImportName(n, a) == [name |-> n, asname |-> a]
Import(ns) == [kind |-> "Import", names |-> ns]
ImportFrom(m, ns) == [kind |-> "ImportFrom", modname |-> m, names |-> ns]
With(its) == [kind |-> "With", items |-> its]
AssertStmt == [kind |-> "Assert"]
NoNode == [kind |-> "None"]

\* isinstance(node, astroid.<kind>)
IsInstance(node, kind) == node.kind = kind

-----------------------------------------------------------------------------
(* Platform *)

\* the platform test of _chmod_has_wx_for_go used as the capability query
IsNotWindows(sys) == sys # "Windows"

_is_posix(sys) == sys \in {"Linux", "Darwin"}

_is_unix(sys) == _is_posix(sys)

-----------------------------------------------------------------------------
(* Call-shape matchers *)

\* function is a set of names (the code wraps a single name in a tuple)
_is_function_call(node, module, function) ==
    /\ IsInstance(node.func, "Attribute")
    /\ IsInstance(node.func.expr, "Name")
    /\ node.func.expr.name = module
    /\ node.func.attrname \in function

_is_os_path_call(node) ==
    /\ IsInstance(node.func, "Attribute")
    /\ \/ (IsInstance(node.func.expr, "Name") /\ node.func.expr.name = "op")
       \/ /\ IsInstance(node.func.expr, "Attribute")
          /\ node.func.expr.attrname = "path"
          /\ IsInstance(node.func.expr.expr, "Name")
          /\ node.func.expr.expr.name = "os"
    /\ node.func.attrname \in {"abspath", "relpath"}

\* the index of the first keyword the loop stops at, 0 when there is none;
\* hits[i] tells whether keyword i satisfies the test of the loop
FirstKeyword(hits) ==
    IF \E i \in 1..Len(hits) : hits[i]
    THEN CHOOSE i \in 1..Len(hits) : hits[i] /\ \A j \in 1..(i - 1) : ~hits[j]
    ELSE 0

\* any(m in mode for m in 'awx'); a mode that is not a str makes `in` raise
AnyAwxIn(mode) ==
    IF mode.type # "str"
    THEN Raised("TypeError")
    ELSE Returned(PyBool(\E i \in 1..Len(mode.val) : mode.val[i] \in {"a", "w", "x"}))

_is_builtin_open_for_writing(node) ==
    IF IsInstance(node.func, "Name") /\ node.func.name = "open"
    THEN LET k == FirstKeyword([i \in 1..Len(node.keywords) |-> node.keywords[i].arg = "mode"])
         IN IF Len(node.args) > 1
            THEN IF IsInstance(node.args[2], "Name")
                 THEN Returned(PyBool(TRUE))
                 ELSE IF IsInstance(node.args[2], "Const")
                      THEN AnyAwxIn(node.args[2].value)
                      ELSE AnyAwxIn(PyStr(<<>>))
            ELSE IF k # 0
                 THEN IF ~IsInstance(node.keywords[k].value, "Const")
                      THEN Returned(PyBool(TRUE))
                      ELSE AnyAwxIn(node.keywords[k].value.value)
                 ELSE AnyAwxIn(PyStr(<<>>))
    ELSE Returned(PyBool(FALSE))

\* _get_mode_arg without its keyword branch
GetModeArgPositional(node, args_idx) ==
    IF Len(node.args) > args_idx /\ IsInstance(node.args[args_idx + 1], "Const")
    THEN node.args[args_idx + 1].value
    ELSE PyNone

\* args_idx counts from 0 as in the code
_get_mode_arg(node, args_idx) ==
    LET k == FirstKeyword([i \in 1..Len(node.keywords) |->
                              /\ node.keywords[i].arg = "mode"
                              /\ IsInstance(node.keywords[i].value, "Const")])
    IN IF Len(node.args) > args_idx /\ IsInstance(node.args[args_idx + 1], "Const")
       THEN node.args[args_idx + 1].value
       ELSE IF k # 0 THEN node.keywords[k].value.value ELSE PyNone

\* a occurs in b as a run of consecutive characters
IsSubstring(a, b) == \E i \in 0..(Len(b) - Len(a)) : SubSeq(b, i + 1, i + Len(a)) = a

\* mode in allowed_modes: list membership by ==, where True == 1, 1.0 == 1,
\* -0.0 == 0 and a str, an infinity or NaN equals no int; in a str, the
\* substring test of a str and TypeError of anything else; TypeError when
\* allowed_modes is not a container
PyIn(mode, allowed_modes) ==
    IF allowed_modes.type = "str"
    THEN IF mode.type = "str"
         THEN Returned(PyBool(IsSubstring(mode.val, allowed_modes.val)))
         ELSE Raised("TypeError")
    ELSE IF allowed_modes.type # "list"
    THEN Raised("TypeError")
    ELSE Returned(PyBool(
             \E i \in 1..Len(allowed_modes.val) :
                 \/ IsInstanceInt(mode) /\ allowed_modes.val[i] = IntOf(mode)
                 \/ mode.type = "float"
                        /\ mode.num = "finite"
                        /\ mode.man = ToFloat(PyInt(allowed_modes.val[i])).man
                        /\ mode.exp = ToFloat(PyInt(allowed_modes.val[i])).exp
                        /\ (mode.neg = (allowed_modes.val[i] < 0) \/ mode.man = <<>>)))

\* _is_allowed_mode defaulting to False when no literal mode is found
IsAllowedModeStrict(node, allowed_modes, args_idx) ==
    IF _get_mode_arg(node, args_idx).type # "None"
    THEN PyIn(_get_mode_arg(node, args_idx), allowed_modes)
    ELSE Returned(PyBool(FALSE))

_is_allowed_mode(node, allowed_modes, args_idx) ==
    LET mode == _get_mode_arg(node, args_idx)
    IN IF mode.type # "None" THEN PyIn(mode, allowed_modes) ELSE Returned(PyBool(TRUE))

\* the position of the shell flag counted from one
ShellIndexFromOne == 8 + 1

_n_args_max == 8

_is_shell_true_call(node) ==
    IF ~(IsInstance(node.func, "Attribute") /\ IsInstance(node.func.expr, "Name"))
    THEN FALSE
    ELSE \/ /\ node.func.expr.name \in {"subprocess", "sp"}
            /\ \/ /\ node.func.attrname \in
                         {"call", "check_call", "check_output", "Popen", "run"}
                  /\ \/ \E i \in 1..Len(node.keywords) :
                            /\ node.keywords[i].arg = "shell"
                            /\ IsInstance(node.keywords[i].value, "Const")
                            /\ Truthy(node.keywords[i].value.value)
                     \/ /\ Len(node.args) > _n_args_max
                        /\ IsInstance(node.args[_n_args_max + 1], "Const")
                        /\ Truthy(node.args[_n_args_max + 1].value)
               \/ node.func.attrname \in {"getoutput", "getstatusoutput"}
         \/ (node.func.expr.name = "asyncio"
                 /\ node.func.attrname = "create_subprocess_shell")
         \/ (node.func.expr.name = "loop" /\ node.func.attrname = "subprocess_shell")

_is_pdb_call(node) ==
    \/ /\ IsInstance(node.func, "Attribute")
       /\ IsInstance(node.func.expr, "Name")
       /\ node.func.expr.name = "pdb"
    \/ (IsInstance(node.func, "Name") /\ node.func.name = "Pdb")

_is_mktemp_call(node) ==
    \/ (IsInstance(node.func, "Attribute") /\ node.func.attrname = "mktemp")
    \/ (IsInstance(node.func, "Name") /\ node.func.name = "mktemp")

_load_n_args_max == 2
_safe_loaders == {"BaseLoader", "SafeLoader"}
_unsafe_loaders == {"Loader", "UnsafeLoader", "FullLoader"}

\* the keyword loop of yaml.load returns at the first Loader=<Name> keyword
\* whose name is in either set; when no keyword decides, the function falls
\* through to the bare-name test
_is_yaml_unsafe_call(node) ==
    LET k == FirstKeyword([i \in 1..Len(node.keywords) |->
                              /\ node.keywords[i].arg = "Loader"
                              /\ IsInstance(node.keywords[i].value, "Name")
                              /\ node.keywords[i].value.name
                                     \in _unsafe_loaders \cup _safe_loaders])
    IN \/ /\ IsInstance(node.func, "Attribute")
          /\ IsInstance(node.func.expr, "Name")
          /\ node.func.expr.name = "yaml"
          /\ \/ node.func.attrname \in {"unsafe_load", "full_load"}
             \/ /\ node.func.attrname = "load"
                /\ Len(node.keywords) > 0
                /\ k # 0
                /\ node.keywords[k].value.name \in _unsafe_loaders
             \/ /\ node.func.attrname = "load"
                /\ Len(node.keywords) = 0
                /\ \/ Len(node.args) < _load_n_args_max
                   \/ /\ IsInstance(node.args[2], "Name")
                      /\ node.args[2].name \in _unsafe_loaders
       \/ /\ IsInstance(node.func, "Name")
          /\ node.func.name \in {"unsafe_load", "full_load"}

-----------------------------------------------------------------------------
(* Permission-expression evaluator *)

\* a // b with the quotient rounded toward zero, as C division does
TruncDiv(a, b) ==
    IF (a >= 0) = (b > 0) THEN (IF a >= 0 THEN a \div b ELSE (0 - a) \div (0 - b))
    ELSE 0 - (IF a >= 0 THEN a \div (0 - b) ELSE (0 - a) \div b)

\* a // b and a % b of Python ints, b # 0: the quotient is rounded down and
\* the remainder takes the sign of b
FloorDiv(a, b) == IF b > 0 THEN a \div b ELSE (0 - a) \div (0 - b)
PyMod(a, b) == a - b * FloorDiv(a, b)

\* a & b, a | b, a ^ b on two's-complement integers of unbounded width
RECURSIVE BitOp(_, _, _)
BitOp(f, a, b) ==
    LET bit == IF f = "&" THEN (IF a % 2 = 1 /\ b % 2 = 1 THEN 1 ELSE 0)
               ELSE IF f = "|" THEN (IF a % 2 = 1 \/ b % 2 = 1 THEN 1 ELSE 0)
               ELSE (IF a % 2 # b % 2 THEN 1 ELSE 0)
    IN IF a \in {0, -1} /\ b \in {0, -1}
       THEN 0 - bit
       ELSE bit + 2 * BitOp(f, a \div 2, b \div 2)

\* the platform's stat constants (Linux and Darwin values)
stat == [n \in {"S_ISUID", "S_ISGID", "S_ENFMT", "S_ISVTX", "S_IREAD", "S_IWRITE",
                "S_IEXEC", "S_IRWXU", "S_IRUSR", "S_IWUSR", "S_IXUSR", "S_IRWXG",
                "S_IRGRP", "S_IWGRP", "S_IXGRP", "S_IRWXO", "S_IROTH", "S_IWOTH",
                "S_IXOTH"} |->
    CASE n = "S_ISUID" -> 2048 [] n = "S_ISGID" -> 1024 [] n = "S_ENFMT" -> 1024
      [] n = "S_ISVTX" -> 512 [] n = "S_IREAD" -> 256 [] n = "S_IWRITE" -> 128
      [] n = "S_IEXEC" -> 64 [] n = "S_IRWXU" -> 448 [] n = "S_IRUSR" -> 256
      [] n = "S_IWUSR" -> 128 [] n = "S_IXUSR" -> 64 [] n = "S_IRWXG" -> 56
      [] n = "S_IRGRP" -> 32 [] n = "S_IWGRP" -> 16 [] n = "S_IXGRP" -> 8
      [] n = "S_IRWXO" -> 7 [] n = "S_IROTH" -> 4 [] n = "S_IWOTH" -> 2
      [] n = "S_IXOTH" -> 1]

_chmod_known_mode_values == DOMAIN stat

\* the operators each table has an entry for
_unop == {"-", "not", "~"}
_binop == {"+", "-", "*", "/", "//", "%", "^", "|", "&"}

\* _unop[o](v)
ApplyUnop(o, v) ==
    CASE o = "not" -> Returned(PyBool(IsZero(v)))
      [] o = "-" -> Returned(IF IsFloat(v) THEN FloatNeg(v) ELSE PyInt(0 - IntOf(v)))
      [] o = "~" -> IF IsFloat(v) THEN Raised("TypeError")
                    ELSE Returned(PyInt(0 - IntOf(v) - 1))

\* a o b of the arithmetic operators when a or b is a float, and a / b
FloatBinop(o, x, y) ==
    CASE o = "+" -> Returned(FloatAdd(x, y))
      [] o = "-" -> Returned(FloatAdd(x, FloatNeg(y)))
      [] o = "*" -> Returned(FloatMul(x, y))
      [] o = "/" -> IF IsZero(y) THEN Raised("ZeroDivisionError")
                    ELSE Returned(FloatDiv(x, y))
      [] o = "//" -> IF IsZero(y) THEN Raised("ZeroDivisionError")
                     ELSE Returned(FloatFloorDiv(x, y))
      [] o = "%" -> IF IsZero(y) THEN Raised("ZeroDivisionError")
                    ELSE Returned(FloatMod(x, y))

\* _binop[o](a, b)
ApplyBinop(o, a, b) ==
    IF o \in {"^", "|", "&"}
    THEN IF IsFloat(a) \/ IsFloat(b) THEN Raised("TypeError")
         ELSE IF a.type = "bool" /\ b.type = "bool"
              THEN Returned(PyBool(BitOp(o, IntOf(a), IntOf(b)) = 1))
              ELSE Returned(PyInt(BitOp(o, IntOf(a), IntOf(b))))
    ELSE IF o = "/" \/ IsFloat(a) \/ IsFloat(b)
    THEN FloatBinop(o, ToFloat(a), ToFloat(b))
    ELSE CASE o = "+" -> Returned(PyInt(IntOf(a) + IntOf(b)))
           [] o = "-" -> Returned(PyInt(IntOf(a) - IntOf(b)))
           [] o = "*" -> Returned(PyInt(IntOf(a) * IntOf(b)))
           [] o = "//" -> IF IsZero(b) THEN Raised("ZeroDivisionError")
                          ELSE Returned(PyInt(FloorDiv(IntOf(a), IntOf(b))))
           [] o = "%" -> IF IsZero(b) THEN Raised("ZeroDivisionError")
                         ELSE Returned(PyInt(PyMod(IntOf(a), IntOf(b))))

\* The table lookup (KeyError) comes before the operands are evaluated, the
\* left operand before the right one.
RECURSIVE _chmod_get_mode(_)
_chmod_get_mode(node) ==
    IF IsInstance(node, "Name") /\ node.name \in _chmod_known_mode_values
    THEN Returned(PyInt(stat[node.name]))
    ELSE IF /\ IsInstance(node, "Attribute")
            /\ IsInstance(node.expr, "Name")
            /\ node.attrname \in _chmod_known_mode_values
            /\ node.expr.name = "stat"
    THEN Returned(PyInt(stat[node.attrname]))
    ELSE IF IsInstance(node, "UnaryOp")
    THEN IF node.op \notin _unop THEN Raised("KeyError")
         ELSE LET v == _chmod_get_mode(node.operand)
              IN IF v.raises # "none" THEN v ELSE ApplyUnop(node.op, v.ret)
    ELSE IF IsInstance(node, "BinOp")
    THEN IF node.op \notin _binop THEN Raised("KeyError")
         ELSE LET l == _chmod_get_mode(node.left)
                  r == _chmod_get_mode(node.right)
              IN IF l.raises # "none" THEN l
                 ELSE IF r.raises # "none" THEN r
                 ELSE ApplyBinop(node.op, l.ret, r.ret)
    ELSE Raised("ValueError")

\* every group and other bit, the read bits too: stat.S_IRWXG | stat.S_IRWXO
RwxForGo == BitOp("|", stat["S_IRWXG"], stat["S_IRWXO"])

\* stat.S_IWGRP | stat.S_IXGRP | stat.S_IWOTH | stat.S_IXOTH
WxForGo ==
    BitOp("|", BitOp("|", stat["S_IWGRP"], stat["S_IXGRP"]),
               BitOp("|", stat["S_IWOTH"], stat["S_IXOTH"]))

\* _chmod_has_wx_for_go with a missing mode argument treated like an unresolved
\* one
ChmodMissingModeIgnored(node, sys) ==
    LET k == FirstKeyword([i \in 1..Len(node.keywords) |-> node.keywords[i].arg = "mode"])
        found == Len(node.args) > 1 \/ k # 0
        modes == IF Len(node.args) > 1 THEN _chmod_get_mode(node.args[2])
                 ELSE _chmod_get_mode(node.keywords[k].value)
    IN IF sys = "Windows" THEN Returned(PyBool(FALSE))
       ELSE IF ~found THEN Returned(PyBool(FALSE))
       ELSE IF modes.raises = "ValueError" THEN Returned(PyBool(FALSE))
       ELSE IF modes.raises # "none" THEN modes
       ELSE IF IsFloat(modes.ret) THEN Raised("TypeError")
       ELSE Returned(PyBool(BitOp("&", IntOf(modes.ret), WxForGo) # 0))

_chmod_has_wx_for_go(node, sys) ==
    LET k == FirstKeyword([i \in 1..Len(node.keywords) |-> node.keywords[i].arg = "mode"])
        found == Len(node.args) > 1 \/ k # 0
        modes == IF Len(node.args) > 1 THEN _chmod_get_mode(node.args[2])
                 ELSE _chmod_get_mode(node.keywords[k].value)
    IN IF sys = "Windows" THEN Returned(PyBool(FALSE))
       ELSE IF ~found THEN Raised("RuntimeError")
       ELSE IF modes.raises = "ValueError" THEN Returned(PyBool(FALSE))
       ELSE IF modes.raises # "none" THEN modes
       ELSE IF IsFloat(modes.ret) THEN Raised("TypeError")
       ELSE Returned(PyBool(BitOp("&", IntOf(modes.ret), WxForGo) # 0))

-----------------------------------------------------------------------------
(* Rule dispatcher: the visitor methods *)

\* one add_message call: the message id and its format arguments
Message(id, a) == [msgid |-> id, args |-> a]

\* what a visitor did: the messages it added, and how it ended
Emit(id, a) == [messages |-> <<Message(id, a)>>, raised |-> "none"]
Nothing == [messages |-> <<>>, raised |-> "none"]
Throw(e) == [messages |-> <<>>, raised |-> e]

\* a condition of the cascade that cannot raise
Holds(b) == Returned(PyBool(b))

\* one branch of an if/elif cascade: its condition (a bool, or the exception
\* its evaluation raises) and the add_message call of its body
Rule(cond, id, a) == [cond |-> cond, msgid |-> id, args |-> a]

\* the cascade written with `if` in place of `elif`: every branch whose
\* condition is true adds its message
RECURSIVE DispatchEvery(_, _)
DispatchEvery(rules, i) ==
    IF i > Len(rules) THEN Nothing
    ELSE IF rules[i].cond.raises # "none" THEN Throw(rules[i].cond.raises)
    ELSE IF rules[i].cond.ret.val
    THEN [messages |-> <<Message(rules[i].msgid, rules[i].args)>>
                           \o DispatchEvery(rules, i + 1).messages,
          raised |-> DispatchEvery(rules, i + 1).raised]
    ELSE DispatchEvery(rules, i + 1)

\* the cascade tried from its last branch: of the branches whose condition is
\* true the last one adds its message
RECURSIVE DispatchLast(_, _)
DispatchLast(rules, i) ==
    IF i > Len(rules) THEN Nothing
    ELSE IF rules[i].cond.raises # "none" THEN Throw(rules[i].cond.raises)
    ELSE IF DispatchLast(rules, i + 1) # Nothing THEN DispatchLast(rules, i + 1)
    ELSE IF rules[i].cond.ret.val THEN Emit(rules[i].msgid, rules[i].args)
    ELSE Nothing

\* The if/elif cascade from branch i on: the first branch whose condition is
\* true adds its message and ends the cascade; a condition that raises ends
\* the visit; the conditions after it are not evaluated.
RECURSIVE Dispatch(_, _)
Dispatch(rules, i) ==
    IF i > Len(rules) THEN Nothing
    ELSE IF rules[i].cond.raises # "none" THEN Throw(rules[i].cond.raises)
    ELSE IF rules[i].cond.ret.val THEN Emit(rules[i].msgid, rules[i].args)
    ELSE Dispatch(rules, i + 1)

\* not ok, or the exception ok stands for
NotAllowed(ok) == IF ok.raises # "none" THEN ok ELSE Holds(~ok.ret.val)

\* _is_function_call(node, 'os', function) and allowed_modes
\*     and not _is_allowed_mode(node, allowed_modes, args_idx)
UnsafePermissions(node, function, allowed_modes, args_idx) ==
    IF _is_function_call(node, "os", function) /\ Truthy(allowed_modes)
    THEN NotAllowed(_is_allowed_mode(node, allowed_modes, args_idx))
    ELSE Holds(FALSE)

\* the builtin-open branch without `and self._os_open_modes_allowed`
OpenForWritingUngated(open_w, allowed_modes) == open_w

\* _is_builtin_open_for_writing(node) and self._os_open_modes_allowed
OpenForWriting(open_w, allowed_modes) ==
    IF open_w.raises # "none" THEN open_w
    ELSE Holds(open_w.ret.val /\ Truthy(allowed_modes))

\* _is_function_call(node, module='os', function='chmod') and _chmod_has_wx_for_go(node)
ChmodUnsafe(node, sys) ==
    IF _is_function_call(node, "os", {"chmod"})
    THEN _chmod_has_wx_for_go(node, sys)
    ELSE Holds(FALSE)

\* the mkdir, mkfifo and mknod branches without `elif _is_unix():`
OnUnixUngated(sys, cond) == cond

\* a branch nested under `elif _is_unix():`
OnUnix(sys, cond) == IF _is_unix(sys) THEN cond ELSE Holds(FALSE)

\* the branches of visit_call, in the order of the source
visit_call_rules(allowed, msgs, sys, node) ==
    << Rule(Holds(_is_pdb_call(node)), "avoid-debug-stmt", <<>>),
       Rule(Holds(_is_mktemp_call(node)), "replace-mktemp", <<>>),
       Rule(Holds(_is_yaml_unsafe_call(node)), "avoid-yaml-unsafe-load", <<>>),
       Rule(Holds(_is_function_call(node, "jsonpickle", {"decode"})),
            "avoid-jsonpickle-decode", <<>>),
       Rule(Holds(_is_function_call(node, "os", {"system"})), "avoid-os-system", <<>>),
       Rule(Holds(_is_os_path_call(node)), "replace-os-relpath-abspath", <<>>),
       Rule(Holds(_is_shell_true_call(node)), "avoid-shell-true", <<>>),
       Rule(Holds(_is_function_call(node, "os", {"popen"})), "avoid-os-popen", <<>>),
       Rule(OpenForWriting(_is_builtin_open_for_writing(node), allowed["open"]),
            "replace-builtin-open", <<>>),
       Rule(Holds(IsInstance(node.func, "Name") /\ node.func.name \in {"eval", "exec"}),
            "avoid-eval-exec", <<>>),
       Rule(Holds(~_is_posix(sys) /\ _is_function_call(node, "shlex", {"quote"})),
            "avoid-shlex-quote-on-non-posix", <<>>),
       Rule(UnsafePermissions(node, {"open"}, allowed["open"], 2),
            "os-open-unsafe-permissions", <<msgs["open"]>>),
       Rule(Holds(_is_function_call(node, "pickle", {"load", "loads"})),
            "avoid-pickle-load", <<>>),
       Rule(Holds(_is_function_call(node, "marshal", {"load", "loads"})),
            "avoid-marshal-load", <<>>),
       Rule(Holds(_is_function_call(node, "shelve", {"open"})), "avoid-shelve-open", <<>>),
       Rule(ChmodUnsafe(node, sys), "os-chmod-unsafe-permissions", <<>>),
       Rule(OnUnix(sys, UnsafePermissions(node, {"mkdir", "makedirs"}, allowed["mkdir"], 1)),
            "os-mkdir-unsafe-permissions", <<msgs["mkdir"]>>),
       Rule(OnUnix(sys, UnsafePermissions(node, {"mkfifo"}, allowed["mkfifo"], 1)),
            "os-mkfifo-unsafe-permissions", <<msgs["mkfifo"]>>),
       Rule(OnUnix(sys, UnsafePermissions(node, {"mknod"}, allowed["mknod"], 1)),
            "os-mknod-unsafe-permissions", <<msgs["mknod"]>>) >>

visit_call(allowed, msgs, sys, node) ==
    Dispatch(visit_call_rules(allowed, msgs, sys, node), 1)

\* `for name, _ in node.names`, from names[i] on: one message per name 'pdb'
RECURSIVE visit_import_names(_, _)
visit_import_names(names, i) ==
    IF i > Len(names) THEN <<>>
    ELSE (IF names[i].name = "pdb" THEN <<Message("avoid-debug-stmt", <<>>)>> ELSE <<>>)
             \o visit_import_names(names, i + 1)

visit_import(node) ==
    [messages |-> visit_import_names(node.names, 1), raised |-> "none"]

\* [name for (name, _) in node.names if name in wanted] is not empty
ImportsAny(node, wanted) == \E i \in 1..Len(node.names) : node.names[i].name \in wanted

\* the branches of visit_importfrom, in the order of the source
visit_importfrom_rules(sys, node) ==
    << Rule(Holds(node.modname = "pdb"), "avoid-debug-stmt", <<>>),
       Rule(Holds(node.modname = "tempfile" /\ ImportsAny(node, {"mktemp"})),
            "replace-mktemp", <<>>),
       Rule(Holds(node.modname \in {"os.path", "op"}
                      /\ ImportsAny(node, {"relpath", "abspath"})),
            "replace-os-relpath-abspath", <<>>),
       Rule(Holds(\/ (node.modname = "subprocess"
                         /\ ImportsAny(node, {"getoutput", "getstatusoutput"}))
                  \/ (node.modname = "asyncio"
                         /\ ImportsAny(node, {"create_subprocess_shell"}))),
            "avoid-shell-true", <<>>),
       Rule(Holds(node.modname = "os" /\ ImportsAny(node, {"system"})),
            "avoid-os-system", <<>>),
       Rule(Holds(node.modname = "os" /\ ImportsAny(node, {"popen"})),
            "avoid-os-popen", <<>>),
       Rule(Holds(~_is_posix(sys) /\ node.modname = "shlex" /\ ImportsAny(node, {"quote"})),
            "avoid-shlex-quote-on-non-posix", <<>>),
       Rule(Holds(node.modname = "pickle" /\ ImportsAny(node, {"load", "loads"})),
            "avoid-pickle-load", <<>>),
       Rule(Holds(node.modname = "marshal" /\ ImportsAny(node, {"load", "loads"})),
            "avoid-marshal-load", <<>>),
       Rule(Holds(node.modname = "shelve" /\ ImportsAny(node, {"open"})),
            "avoid-shelve-open", <<>>) >>

visit_importfrom(sys, node) == Dispatch(visit_importfrom_rules(sys, node), 1)

\* the with-statement branch looking for the mode of os.open at index 1
VisitWithItemModeFirst(allowed, item) ==
    IF ~IsInstance(item, "Call") THEN Nothing
    ELSE IF Truthy(allowed["open"])
    THEN Dispatch(<< Rule(_is_builtin_open_for_writing(item), "replace-builtin-open", <<>>),
                     Rule(IF _is_function_call(item, "os", {"open"})
                          THEN NotAllowed(_is_allowed_mode(item, allowed["open"], 1))
                          ELSE Holds(FALSE),
                          "os-open-unsafe-permissions", <<>>) >>, 1)
    ELSE Dispatch(<< Rule(Holds(_is_function_call(item, "shelve", {"open"})),
                          "avoid-shelve-open", <<>>) >>, 1)

\* the body of `for item in node.items` for one item (item[0], the context
\* expression): the os-open message is added without format arguments
visit_with_item(allowed, item) ==
    IF ~IsInstance(item, "Call") THEN Nothing
    ELSE IF Truthy(allowed["open"])
    THEN Dispatch(<< Rule(_is_builtin_open_for_writing(item), "replace-builtin-open", <<>>),
                     Rule(IF _is_function_call(item, "os", {"open"})
                          THEN NotAllowed(_is_allowed_mode(item, allowed["open"], 2))
                          ELSE Holds(FALSE),
                          "os-open-unsafe-permissions", <<>>) >>, 1)
    ELSE Dispatch(<< Rule(Holds(_is_function_call(item, "shelve", {"open"})),
                          "avoid-shelve-open", <<>>) >>, 1)

\* one step of the loop: an exception ends it, the messages added before it
\* stay added
Then(one, rest) ==
    IF one.raised # "none" THEN one
    ELSE [messages |-> one.messages \o rest.messages, raised |-> rest.raised]

\* the loop from items[i] on
RECURSIVE visit_with_items(_, _, _)
visit_with_items(allowed, items, i) ==
    IF i > Len(items) THEN Nothing
    ELSE Then(visit_with_item(allowed, items[i]), visit_with_items(allowed, items, i + 1))

visit_with(allowed, node) == visit_with_items(allowed, node.items, 1)

visit_assert(node) == Emit("avoid-assert", <<>>)

-----------------------------------------------------------------------------
(* Mode-policy store *)

DEFAULT_MAX_MODE == 493

\* "0 < mode < " and oct(modes)
RangeMsg(modes) == <<"0"," ","<"," ","m","o","d","e"," ","<"," ">> \o Oct(modes)

\* str([oct(mode) for mode in modes]) without its brackets, from modes[i] on
RECURSIVE OctList(_, _)
OctList(modes, i) ==
    IF i > Len(modes) THEN <<>>
    ELSE (IF i > 1 THEN <<",", " ">> ELSE <<>>)
             \o <<"'">> \o Oct(modes[i]) \o <<"'">> \o OctList(modes, i + 1)

\* "mode in " and the list of oct(mode)
ListMsg(modes) == <<"m","o","d","e"," ","i","n"," ","[">> \o OctList(modes, 1) \o <<"]">>

\* _set_mode_option with range(modes) in place of range(modes + 1)
StoreModesBelow(allowed, msg, modes) ==
    IF IsInstanceInt(modes) /\ IntOf(modes) > 0
    THEN [allowed |-> PyList(Range(IntOf(modes))),
          msg |-> RangeMsg(IntOf(modes)), raised |-> "none"]
    ELSE IF Truthy(modes)
    THEN IF modes.type = "list"
         THEN [allowed |-> modes, msg |-> ListMsg(modes.val), raised |-> "none"]
         ELSE [allowed |-> modes, msg |-> msg, raised |-> "TypeError"]
    ELSE IF allowed.type = "list"
         THEN [allowed |-> PyList(<<>>), msg |-> msg, raised |-> "none"]
         ELSE [allowed |-> allowed, msg |-> msg, raised |-> "AttributeError"]

\* _set_mode_option extending the stored list instead of replacing it
StoreModesAppend(allowed, msg, modes) ==
    IF IsInstanceInt(modes) /\ IntOf(modes) > 0
    THEN [allowed |-> PyList(Range(IntOf(modes) + 1)),
          msg |-> RangeMsg(IntOf(modes)), raised |-> "none"]
    ELSE IF Truthy(modes)
    THEN IF modes.type = "list"
         THEN [allowed |-> IF allowed.type = "list" THEN PyList(allowed.val \o modes.val)
                           ELSE modes,
               msg |-> ListMsg(modes.val), raised |-> "none"]
         ELSE [allowed |-> modes, msg |-> msg, raised |-> "TypeError"]
    ELSE IF allowed.type = "list"
         THEN [allowed |-> PyList(<<>>), msg |-> msg, raised |-> "none"]
         ELSE [allowed |-> allowed, msg |-> msg, raised |-> "AttributeError"]

\* _set_mode_option whose last branch leaves the stored list as it is
StoreModesKeep(allowed, msg, modes) ==
    IF IsInstanceInt(modes) /\ IntOf(modes) > 0
    THEN [allowed |-> PyList(Range(IntOf(modes) + 1)),
          msg |-> RangeMsg(IntOf(modes)), raised |-> "none"]
    ELSE IF Truthy(modes)
    THEN IF modes.type = "list"
         THEN [allowed |-> modes, msg |-> ListMsg(modes.val), raised |-> "none"]
         ELSE [allowed |-> modes, msg |-> msg, raised |-> "TypeError"]
    ELSE IF allowed.type = "list"
         THEN [allowed |-> allowed, msg |-> msg, raised |-> "none"]
         ELSE [allowed |-> allowed, msg |-> msg, raised |-> "AttributeError"]

\* what _set_mode_option does with the modes the parser returned.
\* A negative integer is stored before the message comprehension fails on it;
\* clear() fails on an attribute that is no list.
StoreModes(allowed, msg, modes) ==
    IF IsInstanceInt(modes) /\ IntOf(modes) > 0
    THEN [allowed |-> PyList(Range(IntOf(modes) + 1)),
          msg |-> RangeMsg(IntOf(modes)), raised |-> "none"]
    ELSE IF Truthy(modes)
    THEN IF modes.type = "list"
         THEN [allowed |-> modes, msg |-> ListMsg(modes.val), raised |-> "none"]
         ELSE [allowed |-> modes, msg |-> msg, raised |-> "TypeError"]
    ELSE IF allowed.type = "list"
         THEN [allowed |-> PyList(<<>>), msg |-> msg, raised |-> "none"]
         ELSE [allowed |-> allowed, msg |-> msg, raised |-> "AttributeError"]

\* r is what _read_octal_mode_option returned or raised
SetModesFrom(allowed, msg, r) ==
    IF r.raises # "none"
    THEN [allowed |-> allowed, msg |-> msg, raised |-> r.raises]
    ELSE StoreModes(allowed, msg, r.ret)

\* _set_mode_option on the attributes of one operation: the new
\* _os_<name>_modes_allowed and _os_<name>_msg_arg, and how the call ended
_set_mode_option(allowed, msg, config_name, value) ==
    SetModesFrom(allowed, msg,
                 _read_octal_mode_option(config_name, value, PyInt(DEFAULT_MAX_MODE)))

\* the operations in the order load_configuration calls their setters
LoadOrder == <<"open", "mkdir", "mkfifo", "mknod">>

\* load_configuration from the setter of LoadOrder[i] on, config giving each
\* operation its option string: a setter that raises ends the call, what the
\* setters before it and it itself stored stays, the ones after it are not
\* called; called counts the setter calls made
RECURSIVE LoadFrom(_, _, _, _)
LoadFrom(allowed, msgs, config, i) ==
    IF i > Len(LoadOrder)
    THEN [allowed |-> allowed, msgs |-> msgs, raised |-> "none", called |-> i - 1]
    ELSE IF _set_mode_option(allowed[LoadOrder[i]], msgs[LoadOrder[i]],
                             LoadOrder[i], config[LoadOrder[i]]).raised # "none"
    THEN [allowed |-> [allowed EXCEPT ![LoadOrder[i]] =
                          _set_mode_option(allowed[LoadOrder[i]], msgs[LoadOrder[i]],
                                           LoadOrder[i], config[LoadOrder[i]]).allowed],
          msgs |-> [msgs EXCEPT ![LoadOrder[i]] =
                       _set_mode_option(allowed[LoadOrder[i]], msgs[LoadOrder[i]],
                                        LoadOrder[i], config[LoadOrder[i]]).msg],
          raised |-> _set_mode_option(allowed[LoadOrder[i]], msgs[LoadOrder[i]],
                                      LoadOrder[i], config[LoadOrder[i]]).raised,
          called |-> i]
    ELSE LoadFrom([allowed EXCEPT ![LoadOrder[i]] =
                      _set_mode_option(allowed[LoadOrder[i]], msgs[LoadOrder[i]],
                                       LoadOrder[i], config[LoadOrder[i]]).allowed],
                  [msgs EXCEPT ![LoadOrder[i]] =
                      _set_mode_option(allowed[LoadOrder[i]], msgs[LoadOrder[i]],
                                       LoadOrder[i], config[LoadOrder[i]]).msg],
                  config, i + 1)

\* load_configuration(linter) on the one checker of the linter, config being
\* checker.config
load_configuration(allowed, msgs, config) == LoadFrom(allowed, msgs, config, 1)

-----------------------------------------------------------------------------
(* The nodes the host supplies *)

MaxItems == 2   \* context managers of one with-statement
MaxNames == 2   \* names of one import statement

\* all sequences over S of length 1..n
RECURSIVE SeqsUpTo(_, _)
SeqsUpTo(S, n) ==
    IF n = 0 THEN {}
    ELSE SeqsUpTo(S, n - 1) \cup [1..n -> S]

Str_f == PyStr(<<"f">>)
Path == Const(Str_f)
Flags == Attribute(Name("os"), "O_WRONLY")

\* integer literals used as a permission mode
ModeLiterals == {0, 1, 2, 420, 492, 493, 494, 511}

\* expressions that are no Const: a variable, an attribute, computed values
NonLiterals ==
    {Name("mode"), Attribute(Name("self"), "mode"),
     BinOp("|", Const(PyInt(448)), Const(PyInt(63))),
     UnaryOp("-", Const(PyInt(1))),
     Call(Name("get_mode"), <<>>, <<>>)}

\* what a call may give as its permission mode
PermModes ==
    {Const(PyInt(m)) : m \in ModeLiterals} \cup NonLiterals \cup
    {Const(PyNone), Const(PyBool(TRUE)), Const(PyStr(<<"w">>)),
     Const(PyFloat(FALSE, <<1>>, 0))}

\* what a call may give as the mode of the builtin open
OpenModes ==
    {Const(PyStr(m)) : m \in {<<>>, <<"r">>, <<"w">>, <<"a">>, <<"x">>, <<"r","b">>,
                              <<"w","b">>, <<"b","a">>, <<"r","+">>}} \cup
    NonLiterals \cup {Const(PyNone), Const(PyInt(1))}

\* f(lead...), f(lead..., m), f(lead..., mode=m), and a positional mode
\* together with a mode keyword
ModeCalls(f, lead, modes) ==
    {Call(f, lead, <<>>)} \cup
    {Call(f, lead \o <<m>>, <<>>) : m \in modes} \cup
    {Call(f, lead, <<Keyword("mode", m)>>) : m \in modes} \cup
    {Call(f, lead, <<Keyword("flags", Flags), Keyword("mode", m)>>) : m \in modes} \cup
    {Call(f, lead \o <<m>>, <<Keyword("mode", Const(PyInt(511)))>>) :
         m \in {Name("mode"), Const(PyInt(493))}}

BuiltinOpenCalls == ModeCalls(Name("open"), <<Path>>, OpenModes)

OsOpenCalls ==
    ModeCalls(Attribute(Name("os"), "open"), <<Path, Flags>>, PermModes) \cup
    {Call(Attribute(Name("os"), "open"), <<Path>>, <<>>),
     Call(Attribute(Name("bla"), "open"), <<Path, Flags, Const(PyInt(511))>>, <<>>),
     Call(Attribute(Name("bla"), "open"), <<Path, Const(PyStr(<<"w">>))>>, <<>>)}

OsCreateCalls ==
    UNION {ModeCalls(Attribute(Name("os"), f), <<Path>>, PermModes) :
               f \in {"mkdir", "makedirs", "mkfifo", "mknod"}}

\* values given as the shell flag of a subprocess function
ShellValues ==
    {Const(PyBool(TRUE)), Const(PyBool(FALSE)), Const(PyInt(1)), Const(PyInt(0)),
     Const(PyNone), Const(PyStr(<<>>)), Const(PyStr(<<"s","h">>)), Name("use_shell")}

\* the eight positional arguments before the shell flag
ShellLead ==
    <<Name("cmd"), Name("b"), Name("e"), Name("i"), Name("o"), Name("e"), Name("pre"),
      Name("c")>>

ShellPositional(m, f, v) == Call(Attribute(Name(m), f), ShellLead \o <<v>>, <<>>)
ShellKeyword(m, f, v) ==
    Call(Attribute(Name(m), f), <<Name("cmd")>>, <<Keyword("shell", v)>>)

SubprocessCalls ==
    UNION {{ShellPositional(m, f, v), ShellKeyword(m, f, v)} :
               m \in {"subprocess", "sp"},
               f \in {"call", "check_call", "check_output", "Popen", "run"},
               v \in ShellValues} \cup
    {Call(Attribute(Name("subprocess"), "Popen"), ShellLead, <<>>),
     Call(Attribute(Name("subprocess"), "Popen"),
          ShellLead \o <<Const(PyBool(TRUE)), Name("cwd")>>, <<>>),
     Call(Attribute(Name("subprocess"), "Popen"),
          ShellLead \o <<Const(PyBool(FALSE))>>, <<Keyword("shell", Const(PyBool(TRUE)))>>),
     Call(Attribute(Name("os"), "run"), <<Name("cmd")>>,
          <<Keyword("shell", Const(PyBool(TRUE)))>>)}

Loaders ==
    {Name(l) : l \in {"Loader", "UnsafeLoader", "FullLoader", "BaseLoader", "SafeLoader",
                      "MyLoader"}} \cup {Attribute(Name("yaml"), "SafeLoader")}

YamlCalls ==
    {Call(Attribute(Name("yaml"), "load"), <<Name("x")>>, <<>>),
     Call(Attribute(Name("yaml"), "load"), <<Name("x")>>,
          <<Keyword("encoding", Name("enc"))>>)} \cup
    UNION {{Call(Attribute(Name("yaml"), "load"), <<Name("x"), l>>, <<>>),
            Call(Attribute(Name("yaml"), "load"), <<Name("x")>>, <<Keyword("Loader", l)>>),
            Call(Attribute(Name("yaml"), "load"), <<Name("x"), l>>,
                 <<Keyword("encoding", Name("enc"))>>),
            Call(Attribute(Name("yaml"), "load"), <<Name("x")>>,
                 <<Keyword("encoding", Name("enc")), Keyword("Loader", l)>>)} :
               l \in Loaders}

MaxSquarings == 7   \* an expression is multiplied by itself that many times over

\* e * e, n times over: e to the power 2^n
RECURSIVE Squared(_, _)
Squared(e, n) == IF n = 0 THEN e ELSE BinOp("*", Squared(e, n - 1), Squared(e, n - 1))

\* 1 / 2048 and 2048 / 1
Small == BinOp("/", Name("S_IXOTH"), Name("S_ISUID"))
Large == BinOp("/", Name("S_ISUID"), Name("S_IXOTH"))

\* the subnormal number 2^-1056
Subnormal == BinOp("*", Squared(Small, MaxSquarings - 1), Squared(Small, MaxSquarings - 2))

\* expressions whose double leaves the range of the normal numbers: inf (2048.0
\* to the power 2^7), 2^704, 0.0 (2^-1408 underflows), the subnormal numbers
\* 2^-1056 and the double nearest to 2^-1056 / 7, NaN (inf - inf)
FloatExtremes ==
    {Squared(Large, MaxSquarings),
     Squared(Large, MaxSquarings - 1),
     Squared(Small, MaxSquarings),
     Subnormal,
     BinOp("/", Subnormal, Name("S_IRWXO")),
     BinOp("-", Squared(Large, MaxSquarings), Squared(Large, MaxSquarings))}

\* mode expressions of os.chmod; not ((1 / 49) * 49 - 1) is False, the double
\* (1 / 49) * 49 being 0.9999999999999999; not (1 / 2048) ** 128 is True, the
\* power being 0.0
ChmodModes ==
    {Name("S_IRWXO"), Attribute(Name("stat"), "S_IRWXO"), Attribute(Name("stat"), "S_IRGRP"),
     Attribute(Name("stat"), "S_IRWXU"), Attribute(Name("stat"), "ST_MODE"),
     Attribute(Name("bla"), "S_IRWXO"), Name("mode"), Const(PyInt(511)),
     BinOp("|", Attribute(Name("stat"), "S_IRUSR"), Attribute(Name("stat"), "S_IWOTH")),
     BinOp("|", Attribute(Name("stat"), "S_IWOTH"), Name("mode")),
     BinOp("&", Attribute(Name("stat"), "S_IRWXG"),
                UnaryOp("~", Attribute(Name("stat"), "S_IRGRP"))),
     BinOp("/", Name("S_IRWXO"), Name("S_IXOTH")),
     UnaryOp("not", BinOp("-", BinOp("*", BinOp("/", Name("S_IXOTH"),
                                                 BinOp("*", Name("S_IRWXO"), Name("S_IRWXO"))),
                                      BinOp("*", Name("S_IRWXO"), Name("S_IRWXO"))),
                          Name("S_IXOTH"))),
     BinOp("%", Name("S_IRWXO"), UnaryOp("not", Name("S_IXOTH"))),
     BinOp("<<", Name("S_IXOTH"), Name("S_IXOTH")),
     UnaryOp("+", Name("S_IRWXO")),
     UnaryOp("-", Name("S_IXOTH")),
     UnaryOp("not", Squared(Small, MaxSquarings)),
     UnaryOp("not", Subnormal),
     Squared(Large, MaxSquarings),
     BinOp("/", Name("S_IXOTH"), Squared(Small, MaxSquarings)),
     BinOp("|", BinOp("|", Name("S_IREAD"), Name("S_IWRITE")), Name("S_IRGRP")),
     BinOp("|", BinOp("|", Name("S_IREAD"), Name("S_IWRITE")), Name("S_IXGRP"))}

ChmodCalls ==
    {Call(Attribute(Name("os"), "chmod"), <<Path>>, <<>>),
     Call(Attribute(Name("os"), "chmod"), <<Path>>, <<Keyword("follow_symlinks", Name("x"))>>)}
    \cup {Call(Attribute(Name("os"), "chmod"), <<Path, m>>, <<>>) : m \in ChmodModes}
    \cup {Call(Attribute(Name("os"), "chmod"), <<Path>>, <<Keyword("mode", m)>>) :
              m \in ChmodModes}

\* callees of every rule, callees matching two rules, callees matching none
Callees ==
    {Name(n) : n \in {"Pdb", "mktemp", "unsafe_load", "full_load", "open", "eval", "exec",
                      "print", "quote", "system"}} \cup
    {Attribute(Name(m), f) : m \in {"pdb", "tempfile"},
                             f \in {"set_trace", "mktemp", "system", "load"}} \cup
    {Attribute(Name("yaml"), f) : f \in {"unsafe_load", "full_load", "safe_load", "mktemp"}} \cup
    {Attribute(Name(m), "decode") : m \in {"jsonpickle", "json"}} \cup
    {Attribute(Name("os"), f) : f \in {"system", "popen", "abspath", "getcwd", "mktemp"}} \cup
    {Attribute(Name("op"), f) : f \in {"abspath", "relpath", "realpath", "mktemp"}} \cup
    {Attribute(Attribute(Name(m), "path"), f) : m \in {"os", "posix"},
                                                 f \in {"abspath", "relpath", "realpath"}} \cup
    {Attribute(Name(m), f) : m \in {"subprocess", "sp"}, f \in {"getoutput", "getstatusoutput"}} \cup
    {Attribute(Name("asyncio"), "create_subprocess_shell"),
     Attribute(Name("loop"), "subprocess_shell"), Attribute(Name("loop"), "run")} \cup
    {Attribute(Name(m), "quote") : m \in {"shlex", "pipes"}} \cup
    {Attribute(Name(m), f) : m \in {"pickle", "marshal", "json"}, f \in {"load", "loads", "dump"}} \cup
    {Attribute(Name(m), "open") : m \in {"shelve", "bla"}} \cup
    {Attribute(Call(Name("get"), <<>>, <<>>), f) : f \in {"mktemp", "system"}}

PlainCalls == {Call(c, <<Name("x")>>, <<>>) : c \in Callees}

CallNodes ==
    PlainCalls \cup BuiltinOpenCalls \cup OsOpenCalls \cup OsCreateCalls \cup
    SubprocessCalls \cup YamlCalls \cup ChmodCalls

\* context expressions of a with-statement
WithItems ==
    {Call(Name("open"), <<Path, Const(PyStr(<<"w">>))>>, <<>>),
     Call(Name("open"), <<Path>>, <<>>),
     Call(Name("open"), <<Path, Const(PyInt(1))>>, <<>>),
     Call(Attribute(Name("os"), "open"), <<Path, Flags, Const(PyInt(511))>>, <<>>),
     Call(Attribute(Name("os"), "open"), <<Path, Flags>>, <<Keyword("mode", Const(PyInt(493)))>>),
     Call(Attribute(Name("shelve"), "open"), <<Path>>, <<>>),
     Name("lock")}

WithNodes ==
    {With(its) : its \in SeqsUpTo(WithItems, MaxItems)} \cup
    {With(<<c>>) : c \in BuiltinOpenCalls \cup OsOpenCalls}

ImportNames == {ImportName(n, a) : n \in {"pdb", "os"}, a \in {"", "dbg"}}

ImportNodes == {Import(ns) : ns \in SeqsUpTo(ImportNames, MaxNames)}

\* per module: the guarded names and one that is not
FromNames(m) ==
    CASE m = "tempfile" -> {"mktemp", "mkstemp"}
      [] m \in {"os.path", "op"} -> {"relpath", "abspath", "realpath"}
      [] m = "subprocess" -> {"getoutput", "getstatusoutput", "run"}
      [] m = "asyncio" -> {"create_subprocess_shell", "run"}
      [] m = "os" -> {"system", "popen", "getcwd"}
      [] m = "shlex" -> {"quote", "split"}
      [] m \in {"pickle", "marshal"} -> {"load", "loads", "dump"}
      [] m = "shelve" -> {"open", "Shelf"}
      [] OTHER -> {"set_trace", "mktemp", "system", "quote", "load", "open"}

ImportFromNodes ==
    UNION {{ImportFrom(m, ns) :
                ns \in SeqsUpTo({ImportName(n, "") : n \in FromNames(m)}, MaxNames)} :
           m \in {"pdb", "tempfile", "os.path", "op", "subprocess", "asyncio", "os", "shlex",
                  "pickle", "marshal", "shelve", "json"}}

-----------------------------------------------------------------------------
(* The option strings the host supplies *)

MaxOptionLen == 3    \* length of the generated option strings
MaxSetterCalls == 2  \* setter calls in one run of SpecOptions

\* option strings of the configuration in which nodes are visited
DispatchOptions == {<<"1">>, <<"0","o","7","5","5",",">>}

\* option strings of the configuration load_configuration reads: the default
\* of the four options, the default range, and a string the setter raises on
\* after storing
LoadOptions == {<<"0">>, <<"y">>, <<"-","1">>}

\* option strings of every class of the grammar, the spellings of zero among
\* them, and outside it
OptionValues ==
    {<<"0">>, <<"n">>, <<"N","o">>, <<"F","a","l","s","e">>,
     <<"y">>, <<"Y","E","S">>, <<"T","r","u","e">>,
     <<"1">>, <<"7","5","5">>, <<"0","o","7","5","5">>, <<"4","9","3">>,
     <<"0","o","7","5","5",",">>,
     <<"0","o","6","4","4",","," ","0","o","7","5","5",",">>,
     <<"0",",">>, <<"1",",","1">>, <<"-","1">>, <<"-","1",",">>,
     <<>>, <<",">>, <<",",",">>, <<"a","b","c">>, <<"a",",">>,
     <<"4","9","3",","," ","a">>, <<" ","y">>, <<"y",",">>,
     <<"\t","1","\n">>, <<"0","o","_","7",",","1","_","0">>, <<"","1">>,
     <<" ","1">>, <<"7",",","","1","">>, <<"É">>,
     <<"0","0">>, <<"0","o","0">>, <<"-","0">>, <<"+","0">>, <<"0","_","0">>,
     <<" ","0","O","_","0","\n">>}

OptionAlphabet ==
    {"0", "4", "7", "9", "o", "y", "N", ",", " ", "-", "a", "+", "_", "\t", "",
     "", " "}

RECURSIVE StringsUpTo(_)
StringsUpTo(n) ==
    IF n = 0 THEN {<<>>}
    ELSE StringsUpTo(n - 1) \cup [1..n -> OptionAlphabet]

ParseValues == StringsUpTo(MaxOptionLen) \cup OptionValues

\* the defaults _read_octal_mode_option is called with: by the setters, by the tests
ParseDefaults == {PyInt(DEFAULT_MAX_MODE), PyList(Range(4))}

-----------------------------------------------------------------------------
(* State machine *)

OpNames == {"open", "mkdir", "mkfifo", "mknod"}
Platforms == {"Linux", "Darwin", "Windows", "Java"}

\* SecureCodingStandardChecker.__init__, before any callback
Init ==
    /\ modes_allowed = [n \in OpNames |-> PyList(<<>>)]
    /\ msg_arg = [n \in OpNames |-> <<>>]
    /\ system \in Platforms
    /\ op = "idle"
    /\ arg = NoNode
    /\ messages = <<>>
    /\ raised = "none"
    /\ result = PyNone
    /\ ncalls = 0

\* a visitor that resets the policies when it raises
VisitResetting(method, node, out) ==
    /\ op = "idle"
    /\ op' = method
    /\ arg' = node
    /\ messages' = out.messages
    /\ raised' = out.raised
    /\ modes_allowed' = IF out.raised = "none" THEN modes_allowed
                        ELSE [n \in OpNames |-> PyList(<<>>)]
    /\ UNCHANGED <<msg_arg, system, result, ncalls>>

\* the host calls a visitor on a node
Visit(method, node, out) ==
    /\ op = "idle"
    /\ op' = method
    /\ arg' = node
    /\ messages' = out.messages
    /\ raised' = out.raised
    /\ UNCHANGED <<modes_allowed, msg_arg, system, result, ncalls>>

VisitCall ==
    \E node \in CallNodes :
        Visit("visit_call", node, visit_call(modes_allowed, msg_arg, system, node))

VisitImport ==
    \E node \in ImportNodes : Visit("visit_import", node, visit_import(node))

VisitImportFrom ==
    \E node \in ImportFromNodes :
        Visit("visit_importfrom", node, visit_importfrom(system, node))

VisitWith ==
    \E node \in WithNodes : Visit("visit_with", node, visit_with(modes_allowed, node))

VisitAssert == Visit("visit_assert", AssertStmt, visit_assert(AssertStmt))

\* a setter writing the attributes of every operation
ConfigureShared(name, value, r) ==
    /\ op = "idle"
    /\ op' = "set_allowed_modes"
    /\ arg' = [name |-> name, value |-> value]
    /\ modes_allowed' = [n \in OpNames |-> r.allowed]
    /\ msg_arg' = [n \in OpNames |-> r.msg]
    /\ raised' = r.raised
    /\ messages' = <<>>
    /\ UNCHANGED <<system, result>>

\* the call ends with outcome r of _set_mode_option
Configure(name, value, r) ==
    /\ op = "idle"
    /\ op' = "set_allowed_modes"
    /\ arg' = [name |-> name, value |-> value]
    /\ modes_allowed' = [modes_allowed EXCEPT ![name] = r.allowed]
    /\ msg_arg' = [msg_arg EXCEPT ![name] = r.msg]
    /\ raised' = r.raised
    /\ messages' = <<>>
    /\ UNCHANGED <<system, result>>

\* set_os_<name>_allowed_modes(value)
SetAllowedModes(name, value) ==
    Configure(name, value,
              _set_mode_option(modes_allowed[name], msg_arg[name], name, value))

set_os_open_allowed_modes(value) == SetAllowedModes("open", value)
set_os_mkdir_allowed_modes(value) == SetAllowedModes("mkdir", value)
set_os_mkfifo_allowed_modes(value) == SetAllowedModes("mkfifo", value)
set_os_mknod_allowed_modes(value) == SetAllowedModes("mknod", value)

SetOpen == \E v \in DispatchOptions : set_os_open_allowed_modes(v) /\ UNCHANGED ncalls
SetMkdir == \E v \in DispatchOptions : set_os_mkdir_allowed_modes(v) /\ UNCHANGED ncalls
SetMkfifo == \E v \in DispatchOptions : set_os_mkfifo_allowed_modes(v) /\ UNCHANGED ncalls
SetMknod == \E v \in DispatchOptions : set_os_mknod_allowed_modes(v) /\ UNCHANGED ncalls

\* the call of load_configuration ends with outcome r
LoadConfiguration(config, r) ==
    /\ op = "idle"
    /\ op' = "load_configuration"
    /\ arg' = [config |-> config]
    /\ modes_allowed' = r.allowed
    /\ msg_arg' = r.msgs
    /\ raised' = r.raised
    /\ messages' = <<>>
    /\ UNCHANGED <<system, result>>

\* the host loads the configuration in which nodes are visited
Load ==
    /\ \E config \in [OpNames -> DispatchOptions] :
           LoadConfiguration(config, load_configuration(modes_allowed, msg_arg, config))
    /\ UNCHANGED ncalls

\* platform.system() answers differently (the tests patch it between visits)
PlatformChange ==
    /\ op = "idle"
    /\ system' \in Platforms \ {system}
    /\ UNCHANGED <<modes_allowed, msg_arg, op, arg, messages, raised, result, ncalls>>

\* the callback has returned (or raised) to the host
Return ==
    /\ op # "idle"
    /\ op' = "idle"
    /\ arg' = NoNode
    /\ messages' = <<>>
    /\ raised' = "none"
    /\ result' = PyNone
    /\ UNCHANGED <<modes_allowed, msg_arg, system, ncalls>>

Next ==
    \/ Load
    \/ SetOpen
    \/ SetMkdir
    \/ SetMkfifo
    \/ SetMknod
    \/ PlatformChange
    \/ VisitCall
    \/ VisitImport
    \/ VisitImportFrom
    \/ VisitWith
    \/ VisitAssert
    \/ Return

Spec == Init /\ [][Next]_vars

-----------------------------------------------------------------------------
(* The option setters alone: every class of option string, in sequences *)

InitOptions == Init /\ system = "Linux"

OptionOpen ==
    /\ ncalls < MaxSetterCalls
    /\ \E v \in OptionValues : set_os_open_allowed_modes(v)
    /\ ncalls' = ncalls + 1

OptionMkdir ==
    /\ ncalls < MaxSetterCalls
    /\ \E v \in OptionValues : set_os_mkdir_allowed_modes(v)
    /\ ncalls' = ncalls + 1

OptionMkfifo ==
    /\ ncalls < MaxSetterCalls
    /\ \E v \in OptionValues : set_os_mkfifo_allowed_modes(v)
    /\ ncalls' = ncalls + 1

OptionMknod ==
    /\ ncalls < MaxSetterCalls
    /\ \E v \in OptionValues : set_os_mknod_allowed_modes(v)
    /\ ncalls' = ncalls + 1

OptionLoad ==
    /\ ncalls < MaxSetterCalls
    /\ \E config \in [OpNames -> LoadOptions] :
           LET r == load_configuration(modes_allowed, msg_arg, config)
           IN LoadConfiguration(config, r) /\ ncalls' = ncalls + r.called

NextOptions ==
    \/ OptionLoad
    \/ OptionOpen
    \/ OptionMkdir
    \/ OptionMkfifo
    \/ OptionMknod
    \/ Return

SpecOptions == InitOptions /\ [][NextOptions]_vars

-----------------------------------------------------------------------------
(* The option parser alone, on every short string over OptionAlphabet *)

InitParse ==
    /\ modes_allowed = [n \in OpNames |-> PyList(<<>>)]
    /\ msg_arg = [n \in OpNames |-> <<>>]
    /\ system = "Linux"
    /\ op = "idle"
    /\ arg \in [value : ParseValues, default : ParseDefaults]
    /\ messages = <<>>
    /\ raised = "none"
    /\ result = PyNone
    /\ ncalls = 0

\* the outcome r of the call is kept in result and raised
ReadOption(r) ==
    /\ op = "idle"
    /\ op' = "_read_octal_mode_option"
    /\ result' = r.ret
    /\ raised' = r.raises
    /\ UNCHANGED <<modes_allowed, msg_arg, system, arg, messages, ncalls>>

NextParse == ReadOption(_read_octal_mode_option("os-open-mode", arg.value, arg.default))

SpecParse == InitParse /\ [][NextParse]_vars

-----------------------------------------------------------------------------
(* The permission-expression evaluator alone, on expression trees *)

\* the operands of the tests: a mode constant bare and qualified by stat, a
\* name outside the vocabulary, a constant of another namespace, a variable
ModeLeaves ==
    {Name(c) : c \in {"S_IREAD", "S_IXOTH"}} \cup
    {Attribute(Name("stat"), c) : c \in {"S_IWRITE", "S_IRWXG"}} \cup
    {Attribute(Name("stat"), "ST_MODE"), Attribute(Name("bla"), "S_IREAD"), Name("mode")}

\* an operand, or a unary operator (one of the table, or unary plus) on one
ModeOperands ==
    ModeLeaves \cup {UnaryOp(o, e) : o \in _unop \cup {"+"}, e \in ModeLeaves}

\* quotients of 1, 2 and -7 by 7, 10 and 0: floats, and ZeroDivisionError
ModeQuotients ==
    {BinOp("/", l, r) :
         l \in {Name("S_IXOTH"), Name("S_IWOTH"), UnaryOp("-", Name("S_IRWXO"))},
         r \in {Name("S_IRWXO"), BinOp("+", Name("S_IXGRP"), Name("S_IWOTH")),
                UnaryOp("not", Name("S_IXOTH"))}}

\* the expressions evaluated: operands, binary operators (those of the table,
\* a shift, a power) on two of them, the three-operand expression of the
\* tests, the arithmetic operators on two quotients, and the unary and the
\* arithmetic operators on doubles at the ends of the range
ModeExprs ==
    {UnaryOp(o, e) : o \in _unop, e \in FloatExtremes} \cup
    {BinOp(o, l, r) : o \in {"+", "-", "*", "/", "//", "%"},
                      l \in FloatExtremes \cup {Name("S_IXOTH")},
                      r \in FloatExtremes \cup {UnaryOp("-", Name("S_IRWXO"))}} \cup
    ModeOperands \cup
    {BinOp(o, l, r) : o \in _binop \cup {"<<", "**"}, l \in ModeOperands, r \in ModeOperands}
    \cup {BinOp("|", BinOp("|", Attribute(Name("stat"), "S_IREAD"),
                                Attribute(Name("stat"), "S_IWRITE")), Name("S_IXUSR"))}
    \cup {BinOp(o, l, r) : o \in {"+", "-", "*", "/", "//", "%"},
                           l \in ModeQuotients, r \in ModeQuotients}

InitMode ==
    /\ modes_allowed = [n \in OpNames |-> PyList(<<>>)]
    /\ msg_arg = [n \in OpNames |-> <<>>]
    /\ system = "Linux"
    /\ op = "idle"
    /\ arg \in ModeExprs
    /\ messages = <<>>
    /\ raised = "none"
    /\ result = PyNone
    /\ ncalls = 0

\* the outcome r of the call is kept in result and raised
GetMode(r) ==
    /\ op = "idle"
    /\ op' = "_chmod_get_mode"
    /\ result' = r.ret
    /\ raised' = r.raises
    /\ UNCHANGED <<modes_allowed, msg_arg, system, arg, messages, ncalls>>

NextMode == GetMode(_chmod_get_mode(arg))

SpecMode == InitMode /\ [][NextMode]_vars

-----------------------------------------------------------------------------
(* Properties of the dispatch *)

\* the codes of the messages added, in order
MsgIds(msgs) == [i \in 1..Len(msgs) |-> msgs[i].msgid]

PdbMktemp == Call(Attribute(Name("pdb"), "mktemp"), <<Name("x")>>, <<>>)
OpenW == Call(Name("open"), <<Path, Const(PyStr(<<"w">>))>>, <<>>)

\* C1: one invocation of visit_call on a Call node, or of visit_importfrom on
\* an ImportFrom node, adds at most one message, under every state of the four
\* policies and every platform.
C1_AtMostOneDiagnostic ==
    op \in {"visit_call", "visit_importfrom"} => Len(messages) <= 1

\* a call matching two branches (debugger and mktemp) has been visited and one
\* message was added
C1_Witness ==
    /\ op = "visit_call"
    /\ arg = PdbMktemp
    /\ _is_pdb_call(arg) /\ _is_mktemp_call(arg)
    /\ Len(messages) = 1

\* C2: one invocation of visit_with on a with-statement of any number of
\* items, or of visit_import on an import of any number of names, adds at most
\* one message.
C2_AtMostOneForWithAndImport ==
    op \in {"visit_with", "visit_import"} => Len(messages) <= 1

\* the order of the rules as the specification lists them
C3Order ==
    <<"avoid-debug-stmt", "replace-mktemp", "avoid-yaml-unsafe-load",
      "avoid-jsonpickle-decode", "avoid-os-system", "replace-os-relpath-abspath",
      "avoid-shell-true", "avoid-os-popen", "replace-builtin-open", "avoid-eval-exec",
      "avoid-shlex-quote-on-non-posix", "os-open-unsafe-permissions",
      "avoid-pickle-load", "avoid-marshal-load", "avoid-shelve-open",
      "os-chmod-unsafe-permissions", "os-mkdir-unsafe-permissions",
      "os-mkfifo-unsafe-permissions", "os-mknod-unsafe-permissions">>

\* the predicate of the rule with code id holds for the node of these rules
C3Holds(rules, id) ==
    \E i \in 1..Len(rules) :
        rules[i].msgid = id /\ rules[i].cond.raises = "none" /\ rules[i].cond.ret.val

\* the codes of C3Order from position k on whose predicate holds, first one only
RECURSIVE C3First(_, _)
C3First(rules, k) ==
    IF k > Len(C3Order) THEN <<>>
    ELSE IF C3Holds(rules, C3Order[k]) THEN <<C3Order[k]>>
    ELSE C3First(rules, k + 1)

\* C3: when visit_call returns, the code it emitted is that of the first rule
\* of the listed order whose predicate holds for the node under the current
\* policies and platform, and nothing is emitted when no predicate holds; a
\* visit that raises emits nothing.
C3_FirstRuleInOrderWins ==
    op = "visit_call" =>
        IF raised = "none"
        THEN MsgIds(messages) = C3First(visit_call_rules(modes_allowed, msg_arg, system, arg), 1)
        ELSE messages = <<>>

\* pdb.mktemp() was visited and avoid-debug-stmt alone was emitted
C3_Witness ==
    /\ op = "visit_call"
    /\ arg = PdbMktemp
    /\ C3Holds(visit_call_rules(modes_allowed, msg_arg, system, arg), "replace-mktemp")
    /\ MsgIds(messages) = <<"avoid-debug-stmt">>

-----------------------------------------------------------------------------
(* Properties of the option parser and of the setters *)

TruthyTokens == {<<"y">>, <<"y","e","s">>, <<"t","r","u","e">>}
FalsyTokens == {<<"n">>, <<"n","o">>, <<"f","a","l","s","e">>}

\* s is a non-empty string of decimal digits
IsNumeral(s) == s # <<>> /\ \A i \in 1..Len(s) : IsDigit(s[i], 10)

\* the integer a numeral denotes: in base 8 when all its digits are octal
\* digits, in base 10 otherwise; with the 0o prefix, in base 8
NumeralValue(s) ==
    IF \A i \in 1..Len(s) : IsDigit(s[i], 8) THEN DigitsValue(s, 8) ELSE DigitsValue(s, 10)

IsOctalLiteral(s) ==
    Len(s) > 2 /\ s[1] = "0" /\ s[2] = "o" /\ \A i \in 3..Len(s) : IsDigit(s[i], 8)

IsIntegerToken(s) == IsNumeral(s) \/ IsOctalLiteral(s)

IntegerValue(s) ==
    IF IsNumeral(s) THEN NumeralValue(s) ELSE DigitsValue(SubSeq(s, 3, Len(s)), 8)

HasComma(s) == \E i \in 1..Len(s) : s[i] = ","

\* the non-blank tokens of a comma-separated string, stripped, in order
Tokens(s) == SelectSeq(StripAll(Split(s, ",")), LAMBDA t : t # <<>>)

\* a token no integer syntax admits: it holds a letter other than the o of 0o
IsWord(t) == \E i \in 1..Len(t) : t[i] \in {"a", "b", "c", "y", "n", "e", "s"}

\* the option strings the specification names as invalid
InvalidOptions ==
    {<<>>, <<",">>, <<",", ",">>, <<"a","b","c">>, <<"a",",">>,
     <<"4","9","3",","," ","a">>}

\* what the specification gives for option string v (lowered) and default d,
\* against the outcome (e, r) of the parser
ParsesAsSpecified(v, d, e, r) ==
    /\ v = <<"0">> => e = "none" /\ r = PyInt(0)
    /\ v \in FalsyTokens => e = "none" /\ r = PyNone
    /\ v \in TruthyTokens => e = "none" /\ r = d
    /\ (~HasComma(v) /\ IsIntegerToken(v)) => e = "none" /\ r = PyInt(IntegerValue(v))
    /\ (HasComma(v) /\ Tokens(v) # <<>> /\ \A i \in 1..Len(Tokens(v)) : IsIntegerToken(Tokens(v)[i]))
           => e = "none"
              /\ r = PyList([i \in 1..Len(Tokens(v)) |-> IntegerValue(Tokens(v)[i])])
    /\ (HasComma(v) /\ Tokens(v) = <<>>) => e = "ValueError"
    /\ (HasComma(v) /\ \E i \in 1..Len(Tokens(v)) : IsWord(Tokens(v)[i])) => e = "ValueError"
    /\ (~HasComma(v) /\ IsWord(v) /\ v \notin TruthyTokens \cup FalsyTokens) => e = "ValueError"
    /\ v = <<>> => e = "ValueError"

\* C4: _read_octal_mode_option maps, case-insensitively, "0" to 0, n/no/false
\* to None, y/yes/true to the default, a single integer token to that integer,
\* a string with a comma to the list of its non-blank integer tokens in order
\* ("0o755," to [0o755], "0o644, 0o755," to [0o644, 0o755]), and raises
\* ValueError for "", ",", ",,", for a single non-integer token and for a list
\* with a non-integer non-blank token.
C4_ParserMapping ==
    op = "_read_octal_mode_option" =>
        /\ ParsesAsSpecified(Lower(arg.value), arg.default, raised, result)
        /\ arg.value \in InvalidOptions => raised = "ValueError"
        /\ arg.value = <<"0","o","7","5","5",",">> => result = PyList(<<493>>)
        /\ arg.value = <<"0","o","6","4","4",","," ","0","o","7","5","5",",">>
               => result = PyList(<<420, 493>>)

\* an upper-case truthy token was parsed to a list default, and a list option
\* to its two integers
C4_Witness ==
    /\ op = "_read_octal_mode_option"
    /\ \/ arg.value = <<"Y","E","S">> /\ result = PyList(Range(4))
       \/ arg.value = <<"0","o","6","4","4",","," ","0","o","7","5","5",",">>
              /\ result = PyList(<<420, 493>>)

\* the allowed-modes list the specification gives after a successful setter
\* call with option string v (lowered)
AllowedAsSpecified(v, allowed) ==
    /\ v \in FalsyTokens \cup {<<"0">>} => allowed = PyList(<<>>)
    /\ v \in TruthyTokens => allowed = PyList(Range(DEFAULT_MAX_MODE + 1))
    /\ (~HasComma(v) /\ IsIntegerToken(v) /\ IntegerValue(v) > 0)
           => /\ allowed = PyList(Range(IntegerValue(v) + 1))
              /\ {0, IntegerValue(v)} \subseteq SeqToSet(allowed.val)
              /\ IntegerValue(v) + 1 \notin SeqToSet(allowed.val)
    /\ (HasComma(v) /\ \A i \in 1..Len(Tokens(v)) : IsIntegerToken(Tokens(v)[i]))
           => allowed = PyList([i \in 1..Len(Tokens(v)) |-> IntegerValue(Tokens(v)[i])])

\* C5: after a successful call of one of the four setters with string s, the
\* operation's allowed-modes list is empty when s is n/no/false or "0", is
\* 0..0o755 when s is y/yes/true, is 0..N with both ends when s is a single
\* integer N > 0, and is exactly the parsed integers when s is a
\* comma-separated list; the same holds of each of the four calls that
\* load_configuration makes when it returns.
C5_SetterResult ==
    /\ (op = "set_allowed_modes" /\ raised = "none") =>
           /\ AllowedAsSpecified(Lower(arg.value), modes_allowed[arg.name])
           /\ arg.value = <<"1">> => modes_allowed[arg.name] = PyList(<<0, 1>>)
           /\ arg.value = <<"0","o","6","4","4",","," ","0","o","7","5","5",",">>
                  => modes_allowed[arg.name] = PyList(<<420, 493>>)
    /\ (op = "load_configuration" /\ raised = "none") =>
           \A n \in OpNames : AllowedAsSpecified(Lower(arg.config[n]), modes_allowed[n])

\* the second setter call of a run succeeded with the single integer 755
C5_Witness ==
    /\ op = "set_allowed_modes"
    /\ raised = "none"
    /\ ncalls = 2
    /\ arg.value = <<"7","5","5">>
    /\ modes_allowed[arg.name] = PyList(Range(494))
    /\ msg_arg[arg.name] = RangeMsg(493)

-----------------------------------------------------------------------------
(* Properties of the permission rules *)

\* the permission message of each policy
PermissionId ==
    [n \in OpNames |-> CASE n = "open" -> "os-open-unsafe-permissions"
                         [] n = "mkdir" -> "os-mkdir-unsafe-permissions"
                         [] n = "mkfifo" -> "os-mkfifo-unsafe-permissions"
                         [] n = "mknod" -> "os-mknod-unsafe-permissions"]

PermissionIds == {PermissionId[n] : n \in OpNames}

\* os.<f> with the expression m as its only mode: at its positional index, or
\* as the mode keyword, alone or after another keyword
CallsWithMode(f, lead, m) ==
    {Call(Attribute(Name("os"), f), lead \o <<m>>, <<>>),
     Call(Attribute(Name("os"), f), lead, <<Keyword("mode", m)>>),
     Call(Attribute(Name("os"), f), lead, <<Keyword("flags", Flags), Keyword("mode", m)>>)}

\* the integer m is in the allowed list
Allows(allowed, m) == \E i \in 1..Len(allowed.val) : allowed.val[i] = m

\* a visit of os.<f> with an integer literal mode emitted id exactly when the
\* literal is outside the allowed list
FlaggedIffNotAllowed(f, lead, allowed, id) ==
    \A m \in ModeLiterals :
        arg \in CallsWithMode(f, lead, Const(PyInt(m))) =>
            MsgIds(messages) = IF Allows(allowed, m) THEN <<>> ELSE <<id>>

\* C6: for os.open (mode at index 2), os.mkdir, os.makedirs, os.mkfifo and
\* os.mknod (mode at index 1), or the mode keyword, with an integer literal
\* mode m and the operation's policy enabled (and, for mkdir/mkfifo/mknod, on a
\* POSIX-like platform), visit_call emits the operation's unsafe-permissions
\* message if and only if m is not in the allowed list.
C6_LiteralModeFlaggedIffNotAllowed ==
    op = "visit_call" =>
        /\ Truthy(modes_allowed["open"]) =>
               FlaggedIffNotAllowed("open", <<Path, Flags>>, modes_allowed["open"],
                                    "os-open-unsafe-permissions")
        /\ (Truthy(modes_allowed["mkdir"]) /\ system \in {"Linux", "Darwin"}) =>
               /\ FlaggedIffNotAllowed("mkdir", <<Path>>, modes_allowed["mkdir"],
                                       "os-mkdir-unsafe-permissions")
               /\ FlaggedIffNotAllowed("makedirs", <<Path>>, modes_allowed["mkdir"],
                                       "os-mkdir-unsafe-permissions")
        /\ (Truthy(modes_allowed["mkfifo"]) /\ system \in {"Linux", "Darwin"}) =>
               FlaggedIffNotAllowed("mkfifo", <<Path>>, modes_allowed["mkfifo"],
                                    "os-mkfifo-unsafe-permissions")
        /\ (Truthy(modes_allowed["mknod"]) /\ system \in {"Linux", "Darwin"}) =>
               FlaggedIffNotAllowed("mknod", <<Path>>, modes_allowed["mknod"],
                                    "os-mknod-unsafe-permissions")

\* with the allowed list [0o755], os.makedirs(path, mode=0o756) was flagged
C6_Witness ==
    /\ op = "visit_call"
    /\ modes_allowed["mkdir"] = PyList(<<493>>)
    /\ arg = Call(Attribute(Name("os"), "makedirs"), <<Path>>,
                  <<Keyword("mode", Const(PyInt(494)))>>)
    /\ messages = <<Message("os-mkdir-unsafe-permissions", <<msg_arg["mkdir"]>>)>>

\* the guarded calls whose mode is omitted or is one expression that is no
\* literal, given positionally or by keyword
CallsWithoutLiteralMode(f, lead) ==
    {Call(Attribute(Name("os"), f), lead, <<>>)} \cup
    UNION {CallsWithMode(f, lead, m) : m \in NonLiterals}

UnguardedModeCalls ==
    CallsWithoutLiteralMode("open", <<Path, Flags>>) \cup
    UNION {CallsWithoutLiteralMode(f, <<Path>>) : f \in {"mkdir", "makedirs", "mkfifo", "mknod"}}

\* C7: a guarded permission call whose mode is omitted or is no literal (a
\* variable or a computed expression), positional or keyword, never gets a
\* permission message, from visit_call or, as the item of a with-statement,
\* from visit_with, whatever the policies and the platform.
C7_NonLiteralModeNeverFlagged ==
    /\ (op = "visit_call" /\ arg \in UnguardedModeCalls) =>
           \A i \in 1..Len(messages) : messages[i].msgid \notin PermissionIds
    /\ (op = "visit_with" /\ Len(arg.items) = 1 /\ arg.items[1] \in UnguardedModeCalls) =>
           \A i \in 1..Len(messages) : messages[i].msgid \notin PermissionIds

\* os.open(path, flags, self.mode) was visited on Linux with the os-open
\* policy enabled, and nothing was emitted
C7_Witness ==
    /\ op = "visit_call"
    /\ system = "Linux"
    /\ Truthy(modes_allowed["open"])
    /\ arg = Call(Attribute(Name("os"), "open"),
                  <<Path, Flags, Attribute(Name("self"), "mode")>>, <<>>)
    /\ messages = <<>>
    /\ raised = "none"

\* the builtin open with the expression m as its mode: second positional
\* argument, or mode keyword
OpenPositional(m) == Call(Name("open"), <<Path, m>>, <<>>)
OpenKeyword(m) == Call(Name("open"), <<Path>>, <<Keyword("mode", m)>>)

\* C8: with the os-open policy enabled, a call of the builtin open whose mode
\* is no literal gets replace-builtin-open, the same as second positional
\* argument and as mode keyword, for every kind of expression (variable,
\* attribute access, computed expression).
C8_NonLiteralOpenModeFlagged ==
    (op = "visit_call" /\ Truthy(modes_allowed["open"])) =>
        \A m \in NonLiterals :
            arg \in {OpenPositional(m), OpenKeyword(m)} =>
                MsgIds(messages) = <<"replace-builtin-open">>

\* C9: the four policies are disabled in the state __init__ leaves, and where
\* an operation's allowed list is empty no message gated on its policy is
\* emitted: neither replace-builtin-open nor os-open-unsafe-permissions by
\* visit_call or visit_with for the os-open policy, and no
\* os-<op>-unsafe-permissions for mkdir, mkfifo, mknod.
C9_DisabledPolicyEmitsNothing ==
    /\ Init => \A n \in OpNames : modes_allowed[n] = PyList(<<>>)
    /\ (op \in {"visit_call", "visit_with"} /\ modes_allowed["open"] = PyList(<<>>)) =>
           \A i \in 1..Len(messages) :
               messages[i].msgid \notin {"replace-builtin-open", "os-open-unsafe-permissions"}
    /\ op \in {"visit_call", "visit_with"} =>
           \A n \in {"mkdir", "mkfifo", "mknod"} :
               modes_allowed[n] = PyList(<<>>) =>
                   \A i \in 1..Len(messages) : messages[i].msgid # PermissionId[n]

\* open("f", "w") was visited with the os-open policy disabled and another
\* policy enabled, and nothing was emitted
C9_Witness ==
    /\ op = "visit_call"
    /\ arg = OpenW
    /\ modes_allowed["open"] = PyList(<<>>)
    /\ Truthy(modes_allowed["mkdir"])
    /\ messages = <<>>

-----------------------------------------------------------------------------
(* Properties of the shell rule *)

\* the node visited is a subprocess function called with nine positional
\* arguments and no keyword
IsShellPositional(node) ==
    /\ IsInstance(node, "Call")
    /\ Len(node.args) = 9
    /\ node.keywords = <<>>
    /\ IsInstance(node.func, "Attribute")
    /\ IsInstance(node.func.expr, "Name")
    /\ node.func.expr.name \in {"subprocess", "sp"}
    /\ node.func.attrname \in {"call", "check_call", "check_output", "Popen", "run"}

\* the same function called with the ninth argument of node as shell keyword
KeywordTwin(node) == ShellKeyword(node.func.expr.name, node.func.attrname, node.args[9])

ShellFlagged(msgs) == \E i \in 1..Len(msgs) : msgs[i].msgid = "avoid-shell-true"

\* C10: for subprocess.call, check_call, check_output, Popen and run (module
\* name subprocess or sp), the shell flag value v given as the ninth positional
\* argument and given as the keyword shell=v get the same verdict, for every
\* v: avoid-shell-true in both forms or in neither.
C10_ShellPositionalLikeKeyword ==
    (op = "visit_call" /\ IsShellPositional(arg)) =>
        (ShellFlagged(messages) <=>
             ShellFlagged(visit_call(modes_allowed, msg_arg, system, KeywordTwin(arg)).messages))

\* sp.run was visited with the truthy literal 1 as ninth argument and flagged,
\* as its keyword form is
C10_Witness ==
    /\ op = "visit_call"
    /\ arg = ShellPositional("sp", "run", Const(PyInt(1)))
    /\ KeywordTwin(arg) = ShellKeyword("sp", "run", Const(PyInt(1)))
    /\ MsgIds(messages) = <<"avoid-shell-true">>

\* the subprocess functions that take a shell flag
ShellFunctions == {"call", "check_call", "check_output", "Popen", "run"}

\* C11: a call of subprocess.call, check_call, check_output, Popen or run
\* whose shell flag is no literal (shell=use_shell, or a variable as ninth
\* positional argument) gets avoid-shell-true.
C11_NonLiteralShellFlagged ==
    op = "visit_call" =>
        \A m \in {"subprocess", "sp"}, f \in ShellFunctions :
            arg \in {ShellPositional(m, f, Name("use_shell")),
                     ShellKeyword(m, f, Name("use_shell"))}
                => ShellFlagged(messages)

-----------------------------------------------------------------------------
(* Properties of the yaml rule *)

YamlLoad == Attribute(Name("yaml"), "load")
OtherKeyword == Keyword("encoding", Name("enc"))

\* the loaders given by a bare name
LoaderNames == {l \in Loaders : IsInstance(l, "Name")}

\* yaml.load with loader l: second positional argument or Loader keyword,
\* without and with another keyword argument
YamlPositional(l, others) == Call(YamlLoad, <<Name("x"), l>>, others)
YamlKeyword(l, others) == Call(YamlLoad, <<Name("x")>>, others \o <<Keyword("Loader", l)>>)

YamlFlagged(msgs) == MsgIds(msgs) = <<"avoid-yaml-unsafe-load">>

\* C12: a yaml.load call gets avoid-yaml-unsafe-load when its loader is
\* omitted, is Loader, UnsafeLoader or FullLoader, or is any other name
\* outside BaseLoader and SafeLoader, also when the call has other keyword
\* arguments; it gets nothing only when the loader is BaseLoader or SafeLoader.
C12_YamlLoadUnsafeUnlessSafeLoader ==
    op = "visit_call" =>
        /\ arg \in {Call(YamlLoad, <<Name("x")>>, <<>>),
                    Call(YamlLoad, <<Name("x")>>, <<OtherKeyword>>)}
               => YamlFlagged(messages)
        /\ \A l \in LoaderNames, others \in {<<>>, <<OtherKeyword>>} :
               arg \in {YamlPositional(l, others), YamlKeyword(l, others)}
                   => (YamlFlagged(messages) <=> l.name \notin {"BaseLoader", "SafeLoader"})

\* the call visited is yaml.load with two positional arguments, the second a
\* bare name
IsYamlPositional(node) ==
    /\ IsInstance(node, "Call")
    /\ node.func = YamlLoad
    /\ Len(node.args) = 2
    /\ IsInstance(node.args[2], "Name")

\* C13: for yaml.load, loader X as second positional argument and as
\* Loader=X get the same verdict, for every loader name X and whatever other
\* keyword arguments the call has.
C13_YamlPositionalLikeKeyword ==
    (op = "visit_call" /\ IsYamlPositional(arg)) =>
        (YamlFlagged(messages) <=>
             YamlFlagged(visit_call(modes_allowed, msg_arg, system,
                                    YamlKeyword(arg.args[2], arg.keywords)).messages))

-----------------------------------------------------------------------------
(* Properties of the platform gates and of the chmod rule *)

ChmodId == "os-chmod-unsafe-permissions"

\* os.chmod with the expression m as its mode: second positional argument, or
\* mode keyword
ChmodWithMode(m) ==
    {Call(Attribute(Name("os"), "chmod"), <<Path, m>>, <<>>),
     Call(Attribute(Name("os"), "chmod"), <<Path>>, <<Keyword("mode", m)>>)}

NoneOf(msgs, ids) == \A i \in 1..Len(msgs) : msgs[i].msgid \notin ids

\* C14: on every platform for which _is_posix is false (every platform but
\* Linux and Darwin), visit_call emits none of os-chmod-, os-mkdir-, os-mkfifo-
\* and os-mknod-unsafe-permissions, whatever the node and the policies.
C14_NoPermissionRuleOffPosix ==
    (op = "visit_call" /\ system \notin {"Linux", "Darwin"}) =>
        NoneOf(messages, {ChmodId, PermissionId["mkdir"], PermissionId["mkfifo"],
                          PermissionId["mknod"]})

\* C14, as the code and its tests have it: the mkdir, mkfifo and mknod messages
\* are emitted on Linux and Darwin only; the chmod message is emitted on no
\* Windows platform, and is emitted on every other platform, POSIX-like or not
\* (os.chmod(path, stat.S_IRWXO) is flagged on Java).
C14_GatesPerRule ==
    op = "visit_call" =>
        /\ system \notin {"Linux", "Darwin"} =>
               NoneOf(messages, {PermissionId["mkdir"], PermissionId["mkfifo"],
                                 PermissionId["mknod"]})
        /\ system = "Windows" => NoneOf(messages, {ChmodId})
        /\ (system # "Windows" /\ arg \in ChmodWithMode(Attribute(Name("stat"), "S_IRWXO")))
               => MsgIds(messages) = <<ChmodId>>

\* os.mkdir(path, 0o777) was visited on Java with the mkdir policy enabled, and
\* nothing was emitted
C14_Witness ==
    /\ op = "visit_call"
    /\ system = "Java"
    /\ Truthy(modes_allowed["mkdir"])
    /\ arg = Call(Attribute(Name("os"), "mkdir"), <<Path, Const(PyInt(511))>>, <<>>)
    /\ messages = <<>>

ShlexQuoteCall == Call(Attribute(Name("shlex"), "quote"), <<Name("x")>>, <<>>)

\* the node visited is `from shlex import ...` with quote among the names
IsShlexQuoteImport(node) ==
    /\ IsInstance(node, "ImportFrom")
    /\ node.modname = "shlex"
    /\ \E i \in 1..Len(node.names) : node.names[i].name = "quote"

\* C15: a shlex.quote(...) call, and `from shlex import quote`, get
\* avoid-shlex-quote-on-non-posix if and only if the platform is not
\* POSIX-like (Linux, Darwin) when the node is visited: the verdict follows
\* the value platform.system() has at that visit.
C15_ShlexQuoteFollowsPlatform ==
    ((op = "visit_call" /\ arg = ShlexQuoteCall)
         \/ (op = "visit_importfrom" /\ IsShlexQuoteImport(arg))) =>
        /\ raised = "none"
        /\ MsgIds(messages) = IF system \in {"Linux", "Darwin"} THEN <<>>
                              ELSE <<"avoid-shlex-quote-on-non-posix">>

\* shlex.quote(x) was visited while the platform was Java, and flagged
C15_Witness ==
    /\ op = "visit_call"
    /\ arg = ShlexQuoteCall
    /\ system = "Java"
    /\ MsgIds(messages) = <<"avoid-shlex-quote-on-non-posix">>

ReadWriteUser == BinOp("|", Name("S_IREAD"), Name("S_IWRITE"))

\* mode expressions over the stat constants and the supported operators, each
\* with the integer Python computes for it
ChmodFolds ==
    {[mode |-> Name("S_IRWXO"), value |-> 7],
     [mode |-> Attribute(Name("stat"), "S_IRWXO"), value |-> 7],
     [mode |-> Attribute(Name("stat"), "S_IRGRP"), value |-> 32],
     [mode |-> Attribute(Name("stat"), "S_IRWXU"), value |-> 448],
     [mode |-> BinOp("|", Attribute(Name("stat"), "S_IRUSR"),
                          Attribute(Name("stat"), "S_IWOTH")), value |-> 258],
     [mode |-> BinOp("&", Attribute(Name("stat"), "S_IRWXG"),
                          UnaryOp("~", Attribute(Name("stat"), "S_IRGRP"))), value |-> 24],
     [mode |-> UnaryOp("-", Name("S_IXOTH")), value |-> 0 - 1],
     [mode |-> BinOp("|", ReadWriteUser, Name("S_IRGRP")), value |-> 416],
     [mode |-> BinOp("|", ReadWriteUser, Name("S_IXGRP")), value |-> 392]}

\* mode expressions with an operand the evaluator has no value for: a variable,
\* stat.ST_MODE, a constant of another namespace, an integer literal
ChmodUnresolved ==
    {Name("mode"), Attribute(Name("stat"), "ST_MODE"), Attribute(Name("bla"), "S_IRWXO"),
     BinOp("|", Attribute(Name("stat"), "S_IWOTH"), Name("mode")), Const(PyInt(511))}

\* bit b (a power of two) of the two's complement integer v
HasBit(v, b) == (v \div b) % 2 = 1

\* S_IWGRP, S_IXGRP, S_IWOTH, S_IXOTH
WxBits == {16, 8, 2, 1}

\* C16: where the chmod rule is active (every platform but Windows),
\* os.chmod(path, M), M second positional argument or mode keyword, gets
\* os-chmod-unsafe-permissions if and only if the integer M folds to has a
\* group-write, group-execute, other-write or other-execute bit (S_IRGRP added
\* to the user bits is not flagged); when an operand of M cannot be resolved
\* nothing is emitted and nothing is raised, even with S_IWOTH as the other
\* operand.
C16_ChmodFlaggedIffWxForGroupOrOther ==
    (op = "visit_call" /\ system # "Windows") =>
        /\ \A f \in ChmodFolds :
               arg \in ChmodWithMode(f.mode) =>
                   /\ raised = "none"
                   /\ MsgIds(messages) = IF \E b \in WxBits : HasBit(f.value, b)
                                         THEN <<ChmodId>> ELSE <<>>
        /\ \A m \in ChmodUnresolved :
               arg \in ChmodWithMode(m) => (raised = "none" /\ messages = <<>>)

\* os.chmod(path, mode=S_IREAD | S_IWRITE | S_IRGRP) was visited on Linux and
\* not flagged
C16_Witness ==
    /\ op = "visit_call"
    /\ system = "Linux"
    /\ arg = Call(Attribute(Name("os"), "chmod"), <<Path>>,
                  <<Keyword("mode", BinOp("|", ReadWriteUser, Name("S_IRGRP")))>>)
    /\ raised = "none"
    /\ messages = <<>>

\* os.chmod with no mode argument: one positional argument, no mode keyword
ChmodWithoutMode ==
    {Call(Attribute(Name("os"), "chmod"), <<Path>>, <<>>),
     Call(Attribute(Name("os"), "chmod"), <<Path>>, <<Keyword("follow_symlinks", Name("x"))>>)}

\* C17: visit_call on an os.chmod call with no mode argument raises
\* RuntimeError when the platform is POSIX-like (Linux, Darwin); on every
\* other platform the visit raises nothing and emits nothing.
C17_NoModeRaisesOnPosixOnly ==
    (op = "visit_call" /\ arg \in ChmodWithoutMode) =>
        IF system \in {"Linux", "Darwin"} THEN raised = "RuntimeError"
        ELSE raised = "none" /\ messages = <<>>

\* C17, as the code and its tests have it: the visit raises RuntimeError, and
\* emits nothing, on every platform but Windows (Java included); on Windows it
\* raises nothing and emits nothing.  An unresolved mode, by contrast, ends the
\* visit normally.
C17_NoModeRaisesUnlessWindows ==
    op = "visit_call" =>
        /\ arg \in ChmodWithoutMode =>
               /\ raised = (IF system = "Windows" THEN "none" ELSE "RuntimeError")
               /\ messages = <<>>
        /\ arg \in ChmodWithMode(Name("mode")) => raised = "none"

\* os.chmod(path) was visited on Java and raised RuntimeError
C17_Witness ==
    /\ op = "visit_call"
    /\ system = "Java"
    /\ arg = Call(Attribute(Name("os"), "chmod"), <<Path>>, <<>>)
    /\ raised = "RuntimeError"
    /\ messages = <<>>

\* os.chmod with a mode argument
ChmodCallsWithMode == UNION {ChmodWithMode(m) : m \in ChmodModes}

\* C18: for every os.chmod call that supplies a mode argument, whatever the
\* expression (unsupported operators, a modulo by zero, a true division
\* included), visit_call returns normally: no failure to fold the mode is
\* propagated.
C18_FoldFailureNeverPropagates ==
    (op = "visit_call" /\ arg \in ChmodCallsWithMode) => raised = "none"

OsOpenId == "os-open-unsafe-permissions"

\* C19: every os-open-unsafe-permissions message, added by visit_call or by
\* visit_with, carries the display fragment of the os-open policy as its
\* single format argument.
C19_OsOpenMessageCarriesFragment ==
    op \in {"visit_call", "visit_with"} =>
        \A i \in 1..Len(messages) :
            messages[i].msgid = OsOpenId => messages[i].args = <<msg_arg["open"]>>

ShelveOpenCall == Call(Attribute(Name("shelve"), "open"), <<Path>>, <<>>)

\* C20: visit_with on a with-statement with a shelve.open(...) call among its
\* items emits avoid-shelve-open, whether the os-open policy is enabled or
\* disabled.
C20_ShelveOpenInWithFlagged ==
    (op = "visit_with" /\ \E i \in 1..Len(arg.items) : arg.items[i] = ShelveOpenCall) =>
        \E i \in 1..Len(messages) : messages[i].msgid = "avoid-shelve-open"

-----------------------------------------------------------------------------
(* Properties of the setters over sequences of calls *)

\* option strings outside the grammar: empty, blank tokens only, a token that
\* is no integer, a single negative integer
OutsideGrammar == InvalidOptions \cup {<<"-","1">>}

\* C21: each of the four setters ends with ValueError on every option string
\* outside the grammar (empty, blank tokens only, a non-integer token, the
\* single negative integer "-1"), and no setter call ends with any other kind
\* of error.
C21_SettersFailWithValueErrorOnly ==
    op = "set_allowed_modes" =>
        /\ raised \in {"none", "ValueError"}
        /\ arg.value \in OutsideGrammar => raised = "ValueError"

\* the attributes of all four policies
Store(allowed, msgs) == [allowed |-> allowed, msgs |-> msgs]

\* the store after a call of the setter of name ended with outcome r
StoreWith(st, name, r) ==
    Store([st.allowed EXCEPT ![name] = r.allowed], [st.msgs EXCEPT ![name] = r.msg])

\* the store after set_os_<name>_allowed_modes(value) on store st
AfterSetter(st, name, value) ==
    StoreWith(st, name, _set_mode_option(st.allowed[name], st.msgs[name], name, value))

\* what the setter of another operation is called with: one string for each
\* way a call changes the checker (cleared, range, list, TypeError after the
\* value is stored)
OtherCalls == {<<"n">>, <<"1">>, <<"0","o","7","5","5",",">>, <<"-","1">>}

\* the store after the setters of the operations in order, each called with
\* its string of config, on store st
RECURSIVE AfterSetters(_, _, _)
AfterSetters(st, config, order) ==
    IF order = <<>> THEN st
    ELSE AfterSetters(AfterSetter(st, Head(order), config[Head(order)]), config, Tail(order))

\* the operations in the order opposite to that of load_configuration
ReverseOrder == [i \in 1..Len(LoadOrder) |-> LoadOrder[Len(LoadOrder) + 1 - i]]

\* C22: the setters are idempotent and order-independent: right after any
\* setter call, the same call again leaves every policy as it is; and from any
\* state, the call just made and a call of another operation's setter give the
\* same policies in either order. A load_configuration that returns leaves the
\* policies that its four setter calls give in its own order, in the opposite
\* order, and when it is run a second time.
C22_SettersIdempotentAndCommute ==
    [][LET before == Store(modes_allowed, msg_arg)
           after == Store(modes_allowed', msg_arg')
       IN /\ op' = "set_allowed_modes" =>
                 /\ after = AfterSetter(before, arg'.name, arg'.value)
                 /\ AfterSetter(after, arg'.name, arg'.value) = after
                 /\ \A m \in OpNames \ {arg'.name}, w \in OtherCalls :
                        AfterSetter(after, m, w)
                            = AfterSetter(AfterSetter(before, m, w), arg'.name, arg'.value)
          /\ (op' = "load_configuration" /\ raised' = "none") =>
                 /\ after = AfterSetters(before, arg'.config, LoadOrder)
                 /\ after = AfterSetters(before, arg'.config, ReverseOrder)
                 /\ after = AfterSetters(after, arg'.config, LoadOrder)]_vars

\* the second call of a run repeated the first one, a list of two modes, and
\* the policy is that list
C22_Witness ==
    /\ op = "set_allowed_modes"
    /\ ncalls = 2
    /\ raised = "none"
    /\ arg.value = <<"0","o","6","4","4",","," ","0","o","7","5","5",",">>
    /\ modes_allowed[arg.name] = PyList(<<420, 493>>)
    /\ \A n \in OpNames \ {arg.name} : modes_allowed[n] = PyList(<<>>)

\* the policy of operation n is enabled: a non-empty list of allowed modes
Enabled(allowed, n) == allowed[n].type = "list" /\ allowed[n].val # <<>>

\* the policy of operation n is disabled: the empty list
Disabled(allowed, n) == allowed[n] = PyList(<<>>)

\* the digits of a zero: zeros with single underscores between them
IsZeros(s) ==
    /\ s # <<>>
    /\ s[1] = "0" /\ s[Len(s)] = "0"
    /\ \A i \in 1..Len(s) : s[i] \in {"0", "_"}
    /\ \A i \in 1..(Len(s) - 1) : ~(s[i] = "_" /\ s[i + 1] = "_")

\* an integer zero without sign: its digits, bare or after the prefix 0o, an
\* underscore allowed between the prefix and the digits
IsUnsignedZero(s) ==
    \/ IsZeros(s)
    \/ /\ Len(s) > 2
       /\ s[1] = "0" /\ s[2] = "o"
       /\ \/ IsZeros(SubSeq(s, 3, Len(s)))
          \/ s[3] = "_" /\ IsZeros(SubSeq(s, 4, Len(s)))

\* a lowered option string that is one integer of value zero: 0, 00, 0o0,
\* 0_0, with a sign or without, with blanks around it or without
IsZeroToken(s) ==
    \E i \in 1..Len(s), j \in 1..Len(s) :
        /\ i <= j
        /\ \A k \in 1..(i - 1) : s[k] \in IntWhitespace
        /\ \A k \in (j + 1)..Len(s) : s[k] \in IntWhitespace
        /\ \/ IsUnsignedZero(SubSeq(s, i, j))
           \/ s[i] \in {"+", "-"} /\ IsUnsignedZero(SubSeq(s, i + 1, j))

\* the option strings that disable a policy: n, no, false in any case, and
\* every spelling of the integer zero
DisablingOptions ==
    {v \in OptionValues : Lower(v) \in FalsyTokens \/ IsZeroToken(Lower(v))}

\* C23: there is no way back to the unconfigured state: once a policy is
\* enabled, no later setter call makes its allowed set empty again.
C23_NeverDisabledAgain ==
    [][\A n \in OpNames : Enabled(modes_allowed, n) => ~Disabled(modes_allowed', n)]_vars

\* load_configuration on this store with config calls the setter of
\* operation n: the setters before it in LoadOrder return
LoadCalls(allowed, msgs, config, n) ==
    \A i \in 1..Len(LoadOrder) :
        (\E j \in (i + 1)..Len(LoadOrder) : LoadOrder[j] = n) =>
            _set_mode_option(allowed[LoadOrder[i]], msgs[LoadOrder[i]], LoadOrder[i],
                             config[LoadOrder[i]]).raised = "none"

\* C23, as the code and its tests have it: an enabled policy becomes empty
\* again by exactly one kind of step, a call of that operation's own setter
\* with a disabling string (n, no, false in any case, or one integer of value
\* zero however spelled: 0, 00, 0o0, -0, +0, 0_0, blanks around it), which
\* succeeds and empties it, be it called directly or by load_configuration;
\* no other setter call, and no call for another operation, empties it.
C23_DisabledOnlyByOwnSetter ==
    [][\A n \in OpNames :
           Enabled(modes_allowed, n) =>
               (Disabled(modes_allowed', n)
                    <=> \/ /\ op' = "set_allowed_modes"
                           /\ arg'.name = n
                           /\ arg'.value \in DisablingOptions
                           /\ raised' = "none"
                        \/ /\ op' = "load_configuration"
                           /\ arg'.config[n] \in DisablingOptions
                           /\ LoadCalls(modes_allowed, msg_arg, arg'.config, n))]_vars

\* the second call of a run was 0o0 for a policy the first call had enabled:
\* its list is empty, its display fragment is still there
C23_Witness ==
    /\ op = "set_allowed_modes"
    /\ ncalls = 2
    /\ raised = "none"
    /\ arg.value = <<"0","o","0">>
    /\ Disabled(modes_allowed, arg.name)
    /\ msg_arg[arg.name] # <<>>

-----------------------------------------------------------------------------
(* Frame properties: what scanning and configuring leave alone *)

VisitOps == {"visit_call", "visit_import", "visit_importfrom", "visit_with", "visit_assert"}

\* C24: scanning only reads the policies: every call of visit_call,
\* visit_import, visit_importfrom, visit_with and visit_assert, whether it
\* emits, emits nothing or raises, leaves the allowed modes and the display
\* fragment of all four policies as they were.
C24_VisitsLeavePoliciesUnchanged ==
    [][op' \in VisitOps => (modes_allowed' = modes_allowed /\ msg_arg' = msg_arg)]_vars

\* a visit of os.chmod(path) raised RuntimeError with all four policies
\* enabled, and they are still enabled
C24_Witness ==
    /\ op = "visit_call"
    /\ raised = "RuntimeError"
    /\ \A n \in OpNames : Enabled(modes_allowed, n) /\ msg_arg[n] # <<>>

\* the policy each function is checked against
PolicyOf ==
    [f \in {"mkdir", "makedirs", "mkfifo", "mknod"} |-> IF f = "makedirs" THEN "mkdir" ELSE f]

\* states of the other policies: disabled, and enabled with the list [0]
OtherPolicies == {Store(PyList(<<>>), <<>>), Store(PyList(<<0>>), ListMsg(<<0>>))}

\* policy n as in the checker, every other policy as given by other
OwnPolicyOnly(n, other) ==
    Store([m \in OpNames |-> IF m = n THEN modes_allowed[m] ELSE other.allowed],
          [m \in OpNames |-> IF m = n THEN msg_arg[m] ELSE other.msgs])

\* visit_call on node under the policies st
VisitCallUnder(st, node) == visit_call(st.allowed, st.msgs, system, node)

\* C25: the four policies are independent: a setter call changes neither the
\* allowed modes nor the display fragment of the other three operations; and
\* what visit_call does with an os.mkdir, os.makedirs, os.mkfifo or os.mknod
\* call is what it does when the other policies are disabled, or enabled
\* otherwise: only the operation's own policy counts (mkdir for makedirs).
C25_PoliciesIndependent ==
    /\ [][op' = "set_allowed_modes" =>
              \A m \in OpNames \ {arg'.name} :
                  modes_allowed'[m] = modes_allowed[m] /\ msg_arg'[m] = msg_arg[m]]_vars
    /\ []((op = "visit_call" /\ arg \in OsCreateCalls) =>
              \A other \in OtherPolicies :
                  VisitCallUnder(OwnPolicyOnly(PolicyOf[arg.func.attrname], other), arg)
                      = [messages |-> messages, raised |-> raised])

\* os.makedirs(path, 0o777) was flagged on Linux with the mkdir policy as the
\* only enabled one
C25_Witness ==
    /\ op = "visit_call"
    /\ system = "Linux"
    /\ arg = Call(Attribute(Name("os"), "makedirs"), <<Path, Const(PyInt(511))>>, <<>>)
    /\ Enabled(modes_allowed, "mkdir")
    /\ \A n \in OpNames \ {"mkdir"} : Disabled(modes_allowed, n)
    /\ messages = <<Message(PermissionId["mkdir"], <<msg_arg["mkdir"]>>)>>

-----------------------------------------------------------------------------
(* Properties of the permission-expression evaluator *)

\* bits 0..MaxBit are compared, of integers between -2^MaxBit and 2^MaxBit
MaxBit == 12

\* the mode constants of the expressions, in octal digits times their place
StatValue ==
    [c \in {"S_IREAD", "S_IWRITE", "S_IXUSR", "S_IRWXG", "S_IXOTH"} |->
        CASE c = "S_IREAD" -> 4 * 64 [] c = "S_IWRITE" -> 2 * 64 [] c = "S_IXUSR" -> 1 * 64
          [] c = "S_IRWXG" -> 7 * 8 [] c = "S_IXOTH" -> 1]

\* node is a mode constant: bare, or qualified by stat
IsModeConstant(node) ==
    \/ IsInstance(node, "Name") /\ node.name \in DOMAIN StatValue
    \/ /\ IsInstance(node, "Attribute")
       /\ node.expr = Name("stat")
       /\ node.attrname \in DOMAIN StatValue

ConstantName(node) == IF IsInstance(node, "Name") THEN node.name ELSE node.attrname

\* bit i of the two's complement integer v
Bit(v, i) == (v \div 2^i) % 2

Magnitude(v) == IF v < 0 THEN 0 - v ELSE v

\* r is o applied to a
UnaryMeans(o, a, r) ==
    CASE o = "-" -> r + a = 0
      [] o = "~" -> r + a = 0 - 1
      [] o = "not" -> r = (IF a = 0 THEN 1 ELSE 0)

\* r is a o b: sums and products, the floored quotient and its remainder
\* (b # 0), and the bitwise operators bit by bit
BinaryMeans(o, a, b, r) ==
    CASE o = "+" -> r = a + b
      [] o = "-" -> r + b = a
      [] o = "*" -> r = a * b
      [] o = "//" -> LET m == a - r * b
                     IN IF b > 0 THEN 0 <= m /\ m < b ELSE b < m /\ m <= 0
      [] o = "%" -> /\ (a - r) % Magnitude(b) = 0
                    /\ IF b > 0 THEN 0 <= r /\ r < b ELSE b < r /\ r <= 0
      [] o \in {"^", "|", "&"} ->
             /\ 0 - 2^MaxBit <= r /\ r < 2^MaxBit
             /\ \A i \in 0..MaxBit :
                    Bit(r, i) = CASE o = "&" -> Bit(a, i) * Bit(b, i)
                                  [] o = "|" -> IF Bit(a, i) + Bit(b, i) > 0 THEN 1 ELSE 0
                                  [] o = "^" -> (Bit(a, i) + Bit(b, i)) % 2

\* the evaluation v returned an integer
GaveInteger(v) == v.raises = "none" /\ IsInstanceInt(v.ret)

\* C26: _chmod_get_mode returns the value of a mode constant, bare or
\* qualified by stat; on a unary -, ~, not and a binary +, -, *, //, %, ^, |, &
\* whose operands evaluate to integers (the right one not zero for // and %)
\* it returns the integer that operator gives on the operands' values; and it
\* raises ValueError on stat.ST_MODE and on bla.S_IREAD.
C26_EvaluatorFoldsBottomUp ==
    op = "_chmod_get_mode" =>
        /\ IsModeConstant(arg) =>
               raised = "none" /\ result = PyInt(StatValue[ConstantName(arg)])
        /\ arg \in {Attribute(Name("stat"), "ST_MODE"), Attribute(Name("bla"), "S_IREAD")}
               => raised = "ValueError"
        /\ (IsInstance(arg, "UnaryOp") /\ arg.op \in {"-", "~", "not"}
                /\ GaveInteger(_chmod_get_mode(arg.operand))) =>
               /\ raised = "none"
               /\ IsInstanceInt(result)
               /\ UnaryMeans(arg.op, IntOf(_chmod_get_mode(arg.operand).ret), IntOf(result))
        /\ (IsInstance(arg, "BinOp") /\ arg.op \in {"+", "-", "*", "//", "%", "^", "|", "&"}
                /\ GaveInteger(_chmod_get_mode(arg.left))
                /\ GaveInteger(_chmod_get_mode(arg.right))
                /\ (arg.op \in {"//", "%"} => IntOf(_chmod_get_mode(arg.right).ret) # 0)) =>
               /\ raised = "none"
               /\ IsInstanceInt(result)
               /\ BinaryMeans(arg.op, IntOf(_chmod_get_mode(arg.left).ret),
                              IntOf(_chmod_get_mode(arg.right).ret), IntOf(result))

\* -S_IREAD // stat.S_IRWXG was evaluated: -256 // 56 is -5
C26_Witness ==
    /\ op = "_chmod_get_mode"
    /\ arg = BinOp("//", UnaryOp("-", Name("S_IREAD")), Attribute(Name("stat"), "S_IRWXG"))
    /\ raised = "none"
    /\ result = PyInt(0 - 5)

-----------------------------------------------------------------------------
(* Properties of the integer tokens of an option string *)

\* the option string is a list of numerals: a comma, and every token that is
\* not blank a string of decimal digits
IsNumeralList(v) ==
    /\ HasComma(v)
    /\ Tokens(v) # <<>>
    /\ \A i \in 1..Len(Tokens(v)) : IsNumeral(Tokens(v)[i])

\* C27: an integer token is read in base 8 whenever it is a valid base-8
\* literal and in base 10 only otherwise, in the single-value path and in the
\* list path alike: "0o755" and "755" give 493, "493" gives 493, "1" gives 1,
\* and a token of a list gives what it gives as a single value.
C27_OctalBeforeDecimal ==
    op = "_read_octal_mode_option" =>
        /\ arg.value \in {<<"0","o","7","5","5">>, <<"7","5","5">>, <<"4","9","3">>}
               => raised = "none" /\ result = PyInt(493)
        /\ arg.value = <<"1">> => raised = "none" /\ result = PyInt(1)
        /\ arg.value = <<"0","o","7","5","5",",">> => result = PyList(<<493>>)
        /\ IsNumeral(arg.value) =>
               raised = "none" /\ result = PyInt(NumeralValue(arg.value))
        /\ IsNumeralList(arg.value) =>
               /\ raised = "none"
               /\ result = PyList([i \in 1..Len(Tokens(arg.value)) |->
                                      NumeralValue(Tokens(arg.value)[i])])
               /\ \A i \in 1..Len(Tokens(arg.value)) :
                      PyInt(result.val[i])
                          = _read_octal_mode_option("os-open-mode", Tokens(arg.value)[i],
                                                    arg.default).ret

\* "755" was read as a single value: 493, not 755
C27_Witness ==
    /\ op = "_read_octal_mode_option"
    /\ arg.value = <<"7","5","5">>
    /\ raised = "none"
    /\ result = PyInt(493)

-----------------------------------------------------------------------------
(* Properties of the with-statement rule *)

\* the calls of the builtin open and of os.open
OpenCalls == {c \in BuiltinOpenCalls \cup OsOpenCalls :
                  c.func \in {Name("open"), Attribute(Name("os"), "open")}}

\* C28: with the os-open policy enabled, visit_with on a with-statement whose
\* only item is a call c of the builtin open or of os.open adds a message with
\* code X exactly when visit_call on c adds one with code X, under the same
\* policies (and ends with the same exception, if any).
C28_WithLikeCall ==
    (op = "visit_with" /\ Len(arg.items) = 1 /\ arg.items[1] \in OpenCalls
         /\ Truthy(modes_allowed["open"])) =>
        /\ MsgIds(messages)
               = MsgIds(visit_call(modes_allowed, msg_arg, system, arg.items[1]).messages)
        /\ raised = visit_call(modes_allowed, msg_arg, system, arg.items[1]).raised

\* `with os.open(path, flags, 0o777):` was visited with the os-open policy
\* enabled, and flagged as the call is
C28_Witness ==
    /\ op = "visit_with"
    /\ arg = With(<<Call(Attribute(Name("os"), "open"), <<Path, Flags, Const(PyInt(511))>>,
                         <<>>)>>)
    /\ Truthy(modes_allowed["open"])
    /\ MsgIds(messages) = <<OsOpenId>>

-----------------------------------------------------------------------------
(* Properties of failing and of repeated setter calls *)

\* C29: a setter call that ends with an error leaves the allowed modes and the
\* display fragment of every policy exactly as they were before the call, so
\* that every allowed set is a list at all times.
C29_FailedSetterChangesNothing ==
    /\ [][(op' = "set_allowed_modes" /\ raised' # "none") =>
              (modes_allowed' = modes_allowed /\ msg_arg' = msg_arg)]_vars
    /\ [](\A n \in OpNames : modes_allowed[n].type = "list")

\* C30: the last write wins on the whole policy: after a successful setter
\* call, the operation's allowed modes and display fragment are those the same
\* call gives on a freshly constructed checker, whatever calls came before; a
\* policy disabled after having been enabled has the empty display fragment.
C30_LastWriteWins ==
    (op = "set_allowed_modes" /\ raised = "none") =>
        /\ modes_allowed[arg.name]
               = _set_mode_option(PyList(<<>>), <<>>, arg.name, arg.value).allowed
        /\ msg_arg[arg.name]
               = _set_mode_option(PyList(<<>>), <<>>, arg.name, arg.value).msg

=============================================================================
